---- MODULE Spec2Model ----
(***************************************************************************)
(* ZeroWeb scrape scheduler (src/ZeroSkan.py): the scraped_data table, the *)
(* insert_urls_into_db callers, the worker processes started by            *)
(* start_scraping (continuous_scraping_worker) and their scrape_worker     *)
(* threads.                                                                *)
(*                                                                         *)
(* The PostgreSQL table is a set of row records.  A row inserted by an     *)
(* open transaction carries the inserting caller in xmin (0: committed);   *)
(* a row locked by SELECT ... FOR UPDATE carries the locking worker        *)
(* process in lock (0: unlocked).  The database is taken to be reachable:  *)
(* the only I/O that fails is the page fetch (get_snippet).                *)
(*                                                                         *)
(* Worker processes are created by multiprocessing with the fork start     *)
(* method: a child gets a copy of the module globals as they are at the    *)
(* fork, so shutdown_event is one flag per process.                        *)
(***************************************************************************)
EXTENDS Integers, Sequences, FiniteSets, TLC

\* ------------------------------------------------------------------ sizes
\* scaled stand-ins for config.py MAX_SCRAPING_PROCESSES (4),
\* SCRAPING_THREADS_PER_PROCESS (30) and batch_size=100 (ZeroSkan.py:294)
NumProcs == 2
NumThreads == 1
BatchSize == 2
\* how many worker processes may be killed from outside in one run
MaxCrashes == 1

Procs == 1..NumProcs
Threads == 1..NumThreads
\* caller 1 is the insert_urls_into_db call of start_scraping, caller 2 is
\* another call of insert_urls_into_db running on its own
Callers == {1, 2}
URLs == {1, 2, 3}
NULL == "NULL"

VARIABLES
  table,            \* scraped_data: set of row records
  seq,              \* scraped_data_id_seq (SERIAL)
  schema_in_path,   \* whether the role's default search_path holds SCHEMA_NAME
  fetch_fails,      \* URLs whose page fetch always raises
  discover_fails,   \* domains for which get_URL_list raises
  cpc, cdom, curl, clist, cdelay, ctx, clocal, total_urls,   \* insert_urls_into_db callers
  ppc,              \* position of start_scraping
  spawned,          \* number of worker processes started so far
  parent_event,     \* shutdown_event of the parent process
  event,            \* shutdown_event of each worker process
  pc,               \* position of continuous_scraping_worker in each process
  rows,             \* its local rows (ids, in id order)
  url_queue,        \* its url_queue (ids)
  unfinished,       \* url_queue.unfinished_tasks
  tpc, trow, tsuccess,   \* scrape_worker threads: position, row, success flag
  processed_count,  \* manager.Value shared by all processes
  progress_callback,   \* whether start_scraping was given a progress_cb
  progress_lock,       \* manager.Lock: the thread <<p, t>> that holds it
  count_read,          \* scrape_worker: the value "processed_count.value += 1" has read
  current_count,       \* scrape_worker: current_count
  cb_active,           \* the threads that are inside progress_callback
  cb_last,             \* the count the latest progress_callback call was given
  state, running, indexing_in_progress,   \* ZeroMain fields
  current_domains,     \* ZeroMain.current_domains: "None", "empty" or "some"
  current_query,       \* ZeroMain.current_query: "None" or "some"
  ai_mode,             \* ZeroMain.ai_mode: "None", "True" or "False"
  mpc,                 \* position of the thread that runs ZeroMain.loop
  scraping_thread,     \* position of handle_index's scraping thread
  scraping_finished_event,
  left_index,          \* state was set away from "INDEX" since handle_index started its thread
  status,              \* the web: outcome of a GET of each url ("200", "404", "error")
  hrefs,               \* the web: the hrefs on each page
  robots_delay,        \* the web: Crawl-delay of the domain's robots.txt
  domains,             \* ZeroSkan.domains (ZeroScan.py)
  discovered_links,    \* ZeroSkan.discovered_links
  links_saved,         \* _save_discovered_links has written the links file
  sdom,                \* scan_all_domains: index of the domain being scanned
  kpc,                 \* position of crawl_domain
  start_i,             \* crawl_domain: index into start_urls
  queue, visited, discovered_urls,   \* crawl_domain locals
  current,             \* crawl_domain: (current_url, depth)
  links,               \* crawl_domain: the links still to go through "for link in links"
  now,                 \* the crawler's clock
  last_fetch,          \* when the crawler's latest GET of this crawl was sent
  nfetch,              \* GETs sent in this crawl
  add_arg,             \* the text the latest add_domain / remove_domain was given
  add_ret,             \* what it returned: "None" before any call, "True" or "False"
  queue_file,          \* queue.json: its records, in the order of the dict
  index,               \* ZeroIndex.index: the vectors of the FAISS index, slot 0 first
  url_to_id, id_to_metadata, next_id,   \* ZeroIndex fields
  index_file,          \* zeronet.index on disk
  metadata_file,       \* zeronet_metadata.pkl on disk
  restarts,            \* ZeroIndex instances constructed after the first
  wpc,                 \* position of the thread in process_queue / rebuild_index
  wop,                 \* which of the two it was called for
  queue_data,          \* process_queue: queue_data
  qi,                  \* process_queue: position of "for url, data in queue_data.items()"
  new_entries,         \* process_queue: new_entries
  before,              \* the ZeroIndex fields as they were when that call began
  rpc,                 \* position of the thread in search
  query, top_k,        \* search: its arguments
  hits,                \* search: zip(scores[0], indices[0])
  results,             \* search: results, until the caller has taken them
  overlap,             \* that search against the writer: "none", "within" or "mixed"
  removed,             \* urls remove_url returned True for and not indexed since
  settled,             \* nothing happened since process_queue last completed
  search_thread,       \* whether search is called from a thread of its own
  shown,               \* ZeroMain: what gui_show_results was last called with
  search_outcome,      \* ZeroMain: how the last handle_search went
  fetched,             \* crawl_domain: the urls its crawl loop has sent a GET for
  content,             \* _chunk_content: the pages given, in dict order
  page_i,              \* _chunk_content: the page its for loop is at
  chunks,              \* _chunk_content: chunks
  current_chunk,       \* _chunk_content: current_chunk
  chunk_id,            \* _chunk_content: chunk_id
  zpc,                 \* _chunk_content: "loop" or "returned"
  self_queue_data,     \* ZeroScraper.queue_data: the urls that have an entry
  queue_json,          \* queue.json: [kind, urls]
  lock_path,           \* the inode queue.json.lock names, 0 when there is no such file
  inodes_made,         \* how many lock files were created so far
  lock_holder,         \* per inode, the caller whose descriptor holds its flock, or 0
  spc,                 \* position of each caller of add_to_queue / clear_queue
  lock_fd,             \* _save_queue: the inode lock_fd is open on
  dumped,              \* _save_queue: what json.dump has put into the buffer of f
  scrape_input,        \* scrape_urls: urls
  task_queue,          \* scrape_urls: url_queue
  unfinished_tasks,    \* url_queue.unfinished_tasks
  upc,                 \* position of the thread that called scrape_urls
  wkpc,                \* position of each worker thread of scrape_urls
  wkurl,               \* worker: url
  scrape_count         \* how many times scrape_page was called for each url

dbvars == <<table, seq>>
envvars == <<schema_in_path, fetch_fails, discover_fails>>
callervars == <<cpc, cdom, curl, clist, cdelay, ctx, clocal, total_urls>>
parentvars == <<ppc, spawned, parent_event>>
procvars == <<event, pc, rows, url_queue, unfinished>>
threadvars == <<tpc, trow, tsuccess>>
progressvars ==
  <<progress_callback, progress_lock, count_read, current_count, cb_active, cb_last>>
\* what the scheduler's steps below leave alone
indexvars ==
  <<state, running, indexing_in_progress, current_domains, current_query, ai_mode, mpc,
    scraping_thread, scraping_finished_event, left_index>>
schedvars ==
  <<dbvars, envvars, callervars, parentvars, procvars, threadvars, processed_count>>
webvars == <<status, hrefs, robots_delay>>
crawlvars ==
  <<webvars, domains, discovered_links, links_saved, sdom, kpc, start_i, queue, visited,
    discovered_urls, current, links, now, last_fetch, nfetch>>
domainvars == <<add_arg, add_ret>>
memvars == <<index, url_to_id, id_to_metadata, next_id>>
filevars == <<index_file, metadata_file>>
writervars == <<wpc, wop, queue_data, qi, new_entries, before>>
readervars == <<rpc, query, top_k, hits, results, overlap>>
faissvars ==
  <<queue_file, memvars, filevars, restarts, writervars, readervars, removed, settled,
    search_thread>>
guivars == <<shown, search_outcome>>
chunkvars == <<content, page_i, chunks, current_chunk, chunk_id, zpc>>
storevars == <<self_queue_data, queue_json>>
savevars == <<lock_path, inodes_made, lock_holder, spc, lock_fd, dumped>>
scrapevars == <<scrape_input, task_queue, unfinished_tasks, upc, wkpc, wkurl, scrape_count>>
modelvars == <<chunkvars, storevars, savevars, scrapevars>>
latevars == <<guivars, fetched, modelvars>>
zerovars == <<domainvars, faissvars, latevars>>
aside == <<progressvars, indexvars, crawlvars, zerovars>>
vars ==
  <<dbvars, envvars, callervars, parentvars, procvars, threadvars, processed_count, aside>>

\* ------------------------------------------------------------ pure helpers
Min(S) == CHOOSE x \in S : \A y \in S : x <= y

RECURSIVE SortedSeq(_)
SortedSeq(S) == IF S = {} THEN <<>> ELSE <<Min(S)>> \o SortedSeq(S \ {Min(S)})

\* ORDER BY id LIMIT n
Limit(s, n) == IF Len(s) <= n THEN s ELSE SubSeq(s, 1, n)

Range(s) == {s[i] : i \in DOMAIN s}

Row(id) == CHOOSE r \in table : r.id = id

\* ------------------------------------------------- get_URL_list, get_snippet
\* ZeroScraper.get_URL_list(domain) -> (urls, delay)
DomainURLs(d) == IF d = "d1" THEN <<1, 2>> ELSE <<2, 3>>
DomainDelay(d) == IF d = "d1" THEN 1 ELSE 2
\* ZeroScraper.get_snippet(url) -> (title, snippet): a string, never None
Snippet(u) == "text"

\* the domain list each caller passes
DomainsOf(c) == IF c = 1 THEN <<"d1", "d2">> ELSE <<"d2">>

\* ------------------------------------------- ZeroScan.py: urls and the web
\* A url is the sequence of the pieces of its text: scheme, netloc, the pieces
\* of the path, then a query piece ("?...") or a fragment piece ("#...").
RootUrl(d) == <<"https://", d>>
WwwUrl(d) == <<"https://", "www." \o d>>
PageA == <<"https://", "d1", "/a">>
PageAFragment == <<"https://", "d1", "/a", "#top">>
PagePrivate == <<"https://", "d1", "/private/", "x">>
PagePdf == <<"https://", "d1", "/f", ".pdf">>
PagePdfQuery == <<"https://", "d1", "/f", ".pdf", "?v=1">>
PageAdmin == <<"https://", "d1", "/admin/", "x">>
PageFtp == <<"ftp://", "d1", "/a">>
PageOther == <<"https://", "x.org", "/a">>
PageB == <<"https://", "d1", "/b">>
PageC == <<"https://", "d1", "/c">>

AllUrls ==
  {RootUrl("d0"), WwwUrl("d0"), RootUrl("d1"), WwwUrl("d1"), PageA, PageAFragment,
   PagePrivate, PagePdf, PagePdfQuery, PageAdmin, PageFtp, PageOther, PageB, PageC}

Last(s) == s[Len(s)]
IsQuery(piece) == piece \in {"?v=1"}
IsFragment(piece) == piece \in {"#top"}

\* urlparse(url).scheme
Scheme(url) == IF url[1] = "https://" THEN "https" ELSE IF url[1] = "http://" THEN "http" ELSE "ftp"
\* urlparse(url).netloc
Netloc(url) == url[2]
\* urlparse(url).path: the pieces after the netloc, without query and fragment
PathOf(url) ==
  LET n == IF IsQuery(Last(url)) \/ IsFragment(Last(url)) THEN Len(url) - 1 ELSE Len(url)
  IN SubSeq(url, 3, n)

\* domain in parsed.netloc (a substring test)
DomainInNetloc(d, netloc) == netloc = d \/ netloc = "www." \o d

skip_extensions ==
  {".pdf", ".jpg", ".jpeg", ".png", ".gif", ".css", ".js", ".ico", ".zip", ".tar", ".gz",
   ".mp4", ".mp3", ".avi"}
skip_patterns ==
  {"/api/", "/admin/", "/login", "/logout", "/register", "/search?", "/tag/", "/category/",
   "/archive/"}

\* any(url.lower().endswith(ext) for ext in skip_extensions): the end of the
\* whole url text
EndsWithSkipExtension(url) == Last(url) \in skip_extensions

\* any(pattern in url.lower() for pattern in skip_patterns)
HasSkipPattern(url) == \E i \in DOMAIN url : url[i] \in skip_patterns

\* _is_valid_url(url, domain)
IsValidUrl(url, d) ==
  /\ Scheme(url) \in {"http", "https"}
  /\ DomainInNetloc(d, Netloc(url))
  /\ ~EndsWithSkipExtension(url)
  /\ ~HasSkipPattern(url)

\* urlunparse((scheme, netloc, path, params, query, '')): the fragment is dropped
CleanUrl(url) == IF IsFragment(Last(url)) THEN SubSeq(url, 1, Len(url) - 1) ELSE url

\* _extract_links(html_content, base_url, domain)
ExtractLinks(page, d) == {u \in {CleanUrl(h) : h \in hrefs[page]} : IsValidUrl(u, d)}

\* robots.txt of every domain: Disallow: /private/
RobotsDisallows(url) == Len(url) >= 3 /\ url[3] = "/private/"

\* the pages whose hrefs differ from web to web
NoHrefs == [u \in AllUrls |-> {}]
HrefsOf(root, a) ==
  [NoHrefs EXCEPT ![RootUrl("d1")] = root, ![WwwUrl("d1")] = root, ![PageA] = a]
Webs ==
  {HrefsOf({PageA, PagePrivate, PagePdfQuery}, {RootUrl("d1"), PageAdmin}),
   HrefsOf({PageAFragment, PagePdf, PageFtp}, {PageOther, PagePrivate}),
   HrefsOf({PageAdmin, PageOther}, {}),
   [HrefsOf({PageA}, {PageB, RootUrl("d1")}) EXCEPT ![PageB] = {PageC, PageA},
                                                  ![PageC] = {PageA}]}

AllOk == [u \in AllUrls |-> "200"]
\* the outcomes of a GET that differ from web to web
Outcomes ==
  {[AllOk EXCEPT ![RootUrl("d0")] = r0, ![WwwUrl("d0")] = w0, ![RootUrl("d1")] = r1,
                 ![WwwUrl("d1")] = w1, ![PageA] = a] :
     r0 \in {"200", "404", "error"}, w0 \in {"404", "error"},
     r1 \in {"200", "404", "error"}, w1 \in {"200", "404"}, a \in {"200", "404", "error"}}

\* ZeroSkan.__init__ (ZeroScan.py), and crawl_domain not running
CrawlerIdle ==
  /\ domains = <<"d0", "d1">>
  /\ discovered_links = [d \in {"d0", "d1"} |-> <<>>]
  /\ links_saved = FALSE
  /\ sdom = 1
  /\ kpc = "idle"
  /\ start_i = 1
  /\ queue = <<>>
  /\ visited = {}
  /\ discovered_urls = <<>>
  /\ current = <<RootUrl("d0"), 0>>
  /\ links = {}
  /\ now = 0
  /\ last_fetch = 0
  /\ nfetch = 0

\* the crawler idle, in front of some web
CrawlIdle ==
  /\ CrawlerIdle
  /\ status = AllOk
  /\ hrefs = NoHrefs
  /\ robots_delay = 1

\* ---------------------------------------------------------------- Init
NoThread == <<0, 0>>

\* no add_domain or remove_domain call yet
DomainIdle ==
  /\ add_arg = <<>>
  /\ add_ret = "None"

\* the fields of a ZeroIndex as __init__ sets them
EmptyState == [index |-> <<>>, url_to_id |-> <<>>, id_to_metadata |-> <<>>, next_id |-> 0]

\* a first ZeroIndex() with no file on disk, and an empty queue.json
FaissIdle ==
  /\ queue_file = <<>>
  /\ index = <<>> /\ url_to_id = <<>> /\ id_to_metadata = <<>> /\ next_id = 0
  /\ index_file = [exists |-> FALSE, vectors |-> <<>>]
  /\ metadata_file = [exists |-> FALSE, readable |-> FALSE, metadata |-> EmptyState]
  /\ restarts = 0
  /\ wpc = "idle" /\ wop = "none" /\ queue_data = <<>> /\ qi = 1 /\ new_entries = 0
  /\ before = EmptyState
  /\ rpc = "idle" /\ query = "cat" /\ top_k = 1 /\ hits = <<>> /\ results = <<>>
  /\ overlap = "none"
  /\ removed = {}
  /\ settled = FALSE
  /\ search_thread = FALSE

\* ZeroMain has shown no result yet
GuiIdle ==
  /\ shown = {}
  /\ search_outcome = "none"

\* a chunk as _chunk_content starts it
NewChunk(id) == [urls |-> <<>>, token_count |-> 0, chunk_id |-> id]

\* _chunk_content has been given nothing yet
ChunkStart ==
  /\ page_i = 1
  /\ chunks = <<>>
  /\ current_chunk = NewChunk(0)
  /\ chunk_id = 0
  /\ zpc = "loop"

\* the threads that call add_to_queue or clear_queue at the same time
NumSavers == 3
Savers == 1..NumSavers
\* the worker threads of scrape_urls: scaled stand-in for max_workers=5
max_workers == 2
Workers == 1..max_workers
\* the urls given to the scraper
ScrapeUrls == {"u1", "u2"}

\* a queue.json that holds the entries of these urls
Json(urls) == [kind |-> "json", urls |-> urls]

\* ZeroScraper.__init__ with no queue.json, and no call yet
StoreIdle ==
  /\ self_queue_data = {}
  /\ queue_json = [kind |-> "none", urls |-> {}]

SaveIdle ==
  /\ lock_path = 0
  /\ inodes_made = 0
  /\ lock_holder = [i \in Savers |-> 0]
  /\ spc = [c \in Savers |-> "idle"]
  /\ lock_fd = [c \in Savers |-> 0]
  /\ dumped = [c \in Savers |-> {}]

ScrapeIdle ==
  /\ scrape_input = <<>>
  /\ task_queue = <<>>
  /\ unfinished_tasks = 0
  /\ upc = "idle"
  /\ wkpc = [w \in Workers |-> "none"]
  /\ wkurl = [w \in Workers |-> "none"]
  /\ scrape_count = [u \in ScrapeUrls |-> 0]

ModelIdle == content = <<>> /\ ChunkStart /\ StoreIdle /\ SaveIdle /\ ScrapeIdle

LateIdle == GuiIdle /\ fetched = <<>> /\ ModelIdle

ZeroIdle == DomainIdle /\ FaissIdle /\ LateIdle

\* ZeroMain.__init__
MainIdle ==
  /\ state = "HALT"
  /\ running = TRUE
  /\ indexing_in_progress = FALSE
  /\ current_domains = "None"
  /\ current_query = "None"
  /\ ai_mode = "False"
  /\ mpc = "loop"
  /\ scraping_thread = "none"
  /\ scraping_finished_event = FALSE
  /\ left_index = FALSE

\* ZeroMain calls start_scraping(self.current_domains): no progress_cb
ProgressIdle ==
  /\ progress_callback = FALSE
  /\ progress_lock = NoThread
  /\ count_read = [p \in Procs |-> [t \in Threads |-> 0]]
  /\ current_count = [p \in Procs |-> [t \in Threads |-> 0]]
  /\ cb_active = {}
  /\ cb_last = 0

\* the scheduler before start_scraping, over an empty database
SchedulerIdle ==
  /\ table = {}
  /\ seq = 0
  /\ schema_in_path \in BOOLEAN
  /\ fetch_fails \in {{}, {1}, {1, 2}}
  /\ discover_fails \in {{}, {"d1"}}
  /\ cpc = [c \in Callers |-> "idle"]
  /\ cdom = [c \in Callers |-> 1]
  /\ curl = [c \in Callers |-> 1]
  /\ clist = [c \in Callers |-> <<>>]
  /\ cdelay = [c \in Callers |-> 1]
  /\ ctx = [c \in Callers |-> "ok"]
  /\ clocal = [c \in Callers |-> FALSE]
  /\ total_urls = [c \in Callers |-> 0]
  /\ ppc = "idle"
  /\ spawned = 0
  /\ parent_event = FALSE
  /\ event = [p \in Procs |-> FALSE]
  /\ pc = [p \in Procs |-> "unstarted"]
  /\ rows = [p \in Procs |-> <<>>]
  /\ url_queue = [p \in Procs |-> <<>>]
  /\ unfinished = [p \in Procs |-> 0]
  /\ tpc = [p \in Procs |-> [t \in Threads |-> "none"]]
  /\ trow = [p \in Procs |-> [t \in Threads |-> 0]]
  /\ tsuccess = [p \in Procs |-> [t \in Threads |-> FALSE]]
  /\ processed_count = 0

Init == SchedulerIdle /\ ProgressIdle /\ MainIdle /\ CrawlIdle /\ ZeroIdle

\* ------------------------------------------------- insert_urls_into_db
\* the statement resolves scraped_data: SET LOCAL search_path lasts until the
\* end of the transaction it was issued in, afterwards the role's default holds
RelationVisible(c) == clocal[c] \/ schema_in_path

\* the url column without its UNIQUE constraint: no conflict is ever seen
OnConflict_NoUnique(u, c) == FALSE

\* url TEXT UNIQUE ... ON CONFLICT (url) DO NOTHING: a row with this url that
\* the caller's transaction sees
OnConflict(u, c) == \E r \in table : r.url = u /\ r.xmin \in {0, c}

\* a row with this url inserted by another transaction that is still open:
\* the INSERT waits for that transaction to end
InsertWaits(u, c) == \E r \in table : r.url = u /\ r.xmin \notin {0, c}

NewRow(u, d, c) ==
  [id |-> seq + 1, url |-> u, snippet |-> NULL, crawl_delay |-> d, xmin |-> c, lock |-> 0]

\* insert_urls_into_db(domains) is entered: connect, SET LOCAL search_path
EnterInsert(c) ==
  /\ cpc' = [cpc EXCEPT ![c] = "domain"]
  /\ cdom' = [cdom EXCEPT ![c] = 1]
  /\ ctx' = [ctx EXCEPT ![c] = "ok"]
  /\ clocal' = [clocal EXCEPT ![c] = TRUE]
  /\ total_urls' = [total_urls EXCEPT ![c] = 0]
  /\ UNCHANGED <<curl, clist, cdelay>>

\* a call of insert_urls_into_db from outside start_scraping
InsertCall ==
  /\ cpc[2] = "idle"
  /\ EnterInsert(2)
  /\ UNCHANGED <<dbvars, envvars, parentvars, procvars, threadvars, processed_count>>
  /\ UNCHANGED aside

\* urls, delay = get_URL_list(domain); total_urls += len(urls).  The call is
\* outside the per-url try: when it raises, the function's "except Exception"
\* rolls back and the function returns total_urls
BeginDomain(c) ==
  /\ cpc[c] = "domain"
  /\ LET d == DomainsOf(c)[cdom[c]]
         urls == DomainURLs(d)
     IN IF d \in discover_fails
          THEN /\ cpc' = [cpc EXCEPT ![c] = "done"]
               /\ clocal' = [clocal EXCEPT ![c] = FALSE]
               /\ UNCHANGED <<clist, cdelay, total_urls, curl>>
          ELSE /\ clist' = [clist EXCEPT ![c] = urls]
               /\ cdelay' = [cdelay EXCEPT ![c] = DomainDelay(d)]
               /\ total_urls' = [total_urls EXCEPT ![c] = @ + Len(urls)]
               /\ curl' = [curl EXCEPT ![c] = 1]
               /\ cpc' = [cpc EXCEPT ![c] = IF Len(urls) = 0 THEN "commit" ELSE "insert"]
               /\ UNCHANGED clocal
  /\ UNCHANGED <<cdom, ctx>>
  /\ UNCHANGED <<dbvars, envvars, parentvars, procvars, threadvars, processed_count>>
  /\ UNCHANGED aside

\* cursor.execute("INSERT INTO scraped_data (url, crawl_delay) VALUES (%s, %s)
\* ON CONFLICT (url) DO NOTHING"); a psycopg2.Error is logged and the loop goes on
InsertURL(c) ==
  /\ cpc[c] = "insert"
  /\ LET u == clist[c][curl[c]]
     IN /\ IF ctx[c] = "aborted"
             THEN \* current transaction is aborted, commands ignored
                  UNCHANGED <<table, seq, ctx>>
           ELSE IF ~RelationVisible(c)
             THEN \* relation "scraped_data" does not exist
                  /\ ctx' = [ctx EXCEPT ![c] = "aborted"]
                  /\ UNCHANGED <<table, seq>>
           ELSE /\ ~InsertWaits(u, c)
                /\ seq' = seq + 1
                /\ table' = IF OnConflict(u, c) THEN table
                            ELSE table \cup {NewRow(u, cdelay[c], c)}
                /\ UNCHANGED ctx
        /\ curl' = [curl EXCEPT ![c] = @ + 1]
        /\ cpc' = [cpc EXCEPT ![c] = IF curl[c] = Len(clist[c]) THEN "commit" ELSE "insert"]
  /\ UNCHANGED <<cdom, clist, cdelay, clocal, total_urls>>
  /\ UNCHANGED <<envvars, parentvars, procvars, threadvars, processed_count>>
  /\ UNCHANGED aside

\* conn.commit() after each domain; after the last domain the function returns
CommitDomain(c) ==
  /\ cpc[c] = "commit"
  /\ table' = IF ctx[c] = "ok"
                THEN {[r EXCEPT !.xmin = IF r.xmin = c THEN 0 ELSE r.xmin] : r \in table}
                ELSE {r \in table : r.xmin # c}
  /\ ctx' = [ctx EXCEPT ![c] = "ok"]
  /\ clocal' = [clocal EXCEPT ![c] = FALSE]
  /\ cdom' = [cdom EXCEPT ![c] = @ + 1]
  /\ cpc' = [cpc EXCEPT ![c] = IF cdom[c] = Len(DomainsOf(c)) THEN "done" ELSE "domain"]
  /\ UNCHANGED <<seq, curl, clist, cdelay, total_urls>>
  /\ UNCHANGED <<envvars, parentvars, procvars, threadvars, processed_count>>
  /\ UNCHANGED aside

\* ------------------------------------------------------ start_scraping
\* start_scraping(domains): initDB(), then insert_urls_into_db(domains)
StartScraping ==
  /\ ppc = "idle"
  /\ cpc[1] = "idle"
  /\ ppc' = "started"
  /\ EnterInsert(1)
  /\ UNCHANGED <<spawned, parent_event>>
  /\ UNCHANGED <<dbvars, envvars, procvars, threadvars, processed_count>>
  /\ UNCHANGED aside

\* p = start_scraping_process_continuous(...): mp.Process(...).start(); the
\* child starts with the parent's module globals as they are now
SpawnProcess ==
  /\ ppc = "started"
  /\ cpc[1] = "done"
  /\ spawned < NumProcs
  /\ LET p == spawned + 1
     IN /\ pc' = [pc EXCEPT ![p] = "start"]
        /\ event' = [event EXCEPT ![p] = parent_event]
  /\ spawned' = spawned + 1
  /\ ppc' = IF spawned + 1 = NumProcs THEN "join" ELSE "started"
  /\ UNCHANGED <<parent_event, rows, url_queue, unfinished>>
  /\ UNCHANGED <<dbvars, envvars, callervars, threadvars, processed_count>>
  /\ UNCHANGED aside

\* a worker process has ended: its main thread is over and no non-daemon
\* thread of it is left running
ProcExited(p) ==
  \/ pc[p] \in {"done", "dead"}
  \/ pc[p] = "interrupted" /\ \A t \in Threads : tpc[p][t] \in {"none", "done"}

\* for p in processes: p.join(); then the final callback and return total_urls
JoinProcesses ==
  /\ ppc = "join"
  /\ \A p \in Procs : ProcExited(p)
  /\ ppc' = "returned"
  /\ UNCHANGED <<spawned, parent_event>>
  /\ UNCHANGED <<dbvars, envvars, callervars, procvars, threadvars, processed_count>>
  /\ UNCHANGED aside

\* end_scraping(): shutdown_event.set() in the process that calls it
EndScraping ==
  /\ ~parent_event
  /\ parent_event' = TRUE
  /\ UNCHANGED <<ppc, spawned>>
  /\ UNCHANGED <<dbvars, envvars, callervars, procvars, threadvars, processed_count>>
  /\ UNCHANGED aside

\* -------------------------------------------------- get_unscraped_rows
\* SELECT id, url, crawl_delay FROM scraped_data WHERE snippet IS NULL
\* ORDER BY id LIMIT n FOR UPDATE SKIP LOCKED
\* the same SELECT without its WHERE clause
Unscraped_NoWhere == {r \in table : r.xmin = 0}

\* WHERE snippet IS NULL, over the rows a new transaction sees
Unscraped == {r \in table : r.xmin = 0 /\ r.snippet = NULL}
SelectForUpdateSkipLocked(n) ==
  Limit(SortedSeq({r.id : r \in {x \in Unscraped : x.lock = 0}}), n)

\* the worker is at "while not shutdown_event.is_set()": entering the function
\* ("start") or coming round after an iteration ("loop")
AtLoopHead(p) == pc[p] \in {"start", "loop"}

\* while not shutdown_event.is_set(): rows = get_unscraped_rows(batch_size=100),
\* up to cursor.fetchall(): the transaction holds the row locks
SelectRows(p) ==
  /\ AtLoopHead(p)
  /\ ~event[p]
  /\ LET got == SelectForUpdateSkipLocked(BatchSize)
     IN /\ rows' = [rows EXCEPT ![p] = got]
        /\ table' = {[r EXCEPT !.lock = IF r.id \in Range(got) THEN p ELSE r.lock] : r \in table}
  /\ pc' = [pc EXCEPT ![p] = "locked"]
  /\ UNCHANGED <<seq, event, url_queue, unfinished>>
  /\ UNCHANGED <<envvars, callervars, parentvars, threadvars, processed_count>>
  /\ UNCHANGED aside

\* every row lock of p's transaction is released (commit, rollback or the
\* connection going away)
ReleaseLocks(p) == {[r EXCEPT !.lock = IF r.lock = p THEN 0 ELSE r.lock] : r \in table}

\* conn.commit(): "Commit the transaction to release locks"
CommitSelect(p) ==
  /\ pc[p] = "locked"
  /\ table' = ReleaseLocks(p)
  /\ pc' = [pc EXCEPT ![p] = "committed"]
  /\ UNCHANGED <<seq, event, rows, url_queue, unfinished>>
  /\ UNCHANGED <<envvars, callervars, parentvars, threadvars, processed_count>>
  /\ UNCHANGED aside

\* ------------------------------------------- continuous_scraping_worker
\* get_unscraped_rows returns; "if not rows: time.sleep(5); continue", else
\* the rows go to a new url_queue and the scrape_worker threads are started
ReturnRows(p) ==
  /\ pc[p] = "committed"
  /\ IF rows[p] = <<>>
       THEN /\ pc' = [pc EXCEPT ![p] = "sleep"]
            /\ UNCHANGED <<url_queue, unfinished, threadvars>>
       ELSE /\ url_queue' = [url_queue EXCEPT ![p] = rows[p]]
            /\ unfinished' = [unfinished EXCEPT ![p] = Len(rows[p])]
            /\ tpc' = [tpc EXCEPT ![p] = [t \in Threads |-> "loop"]]
            /\ UNCHANGED <<trow, tsuccess>>
            /\ pc' = [pc EXCEPT ![p] = "join_queue"]
  /\ UNCHANGED <<event, rows>>
  /\ UNCHANGED <<dbvars, envvars, callervars, parentvars, processed_count>>
  /\ UNCHANGED aside

\* time.sleep(5) is over; continue
WakeUp(p) ==
  /\ pc[p] = "sleep"
  /\ pc' = [pc EXCEPT ![p] = "loop"]
  /\ UNCHANGED <<event, rows, url_queue, unfinished>>
  /\ UNCHANGED <<dbvars, envvars, callervars, parentvars, threadvars, processed_count>>
  /\ UNCHANGED aside

\* the while condition finds shutdown_event set: the function returns
WorkerExit(p) ==
  /\ AtLoopHead(p)
  /\ event[p]
  /\ pc' = [pc EXCEPT ![p] = "done"]
  /\ UNCHANGED <<event, rows, url_queue, unfinished>>
  /\ UNCHANGED <<dbvars, envvars, callervars, parentvars, threadvars, processed_count>>
  /\ UNCHANGED aside

\* url_queue.join() returns: every task taken from the queue is done
JoinQueue(p) ==
  /\ pc[p] = "join_queue"
  /\ unfinished[p] = 0
  /\ pc' = [pc EXCEPT ![p] = "join_threads"]
  /\ UNCHANGED <<event, rows, url_queue, unfinished>>
  /\ UNCHANGED <<dbvars, envvars, callervars, parentvars, threadvars, processed_count>>
  /\ UNCHANGED aside

\* for t in threads: t.join(); if shutdown_event.is_set(): break
JoinThreads(p) ==
  /\ pc[p] = "join_threads"
  /\ \A t \in Threads : tpc[p][t] = "done"
  /\ pc' = [pc EXCEPT ![p] = IF event[p] THEN "done" ELSE "loop"]
  /\ tpc' = [tpc EXCEPT ![p] = [t \in Threads |-> "none"]]
  /\ UNCHANGED <<event, rows, url_queue, unfinished, trow, tsuccess>>
  /\ UNCHANGED <<dbvars, envvars, callervars, parentvars, processed_count>>
  /\ UNCHANGED aside

\* get_unscraped_rows has returned a batch to continuous_scraping_worker
Returned(p) == pc[p] \in {"join_queue", "join_threads", "interrupted"}

\* SIGINT reaches the worker process: KeyboardInterrupt in its main thread.
\* Only url_queue.join() is inside "except KeyboardInterrupt: shutdown_event.set()";
\* in t.join() the main thread ends and the threads stay; anywhere else no
\* thread is left and the process ends, its connection closed.  Of a process
\* that has ended, rows keeps the batch that had been returned to it
KeyboardInterrupt(p) ==
  /\ pc[p] \in {"start", "loop", "locked", "committed", "sleep", "join_queue", "join_threads"}
  /\ IF pc[p] = "join_queue"
       THEN /\ event' = [event EXCEPT ![p] = TRUE]
            /\ pc' = [pc EXCEPT ![p] = "join_threads"]
            /\ UNCHANGED <<table, rows>>
       ELSE IF pc[p] = "join_threads"
       THEN /\ pc' = [pc EXCEPT ![p] = "interrupted"]
            /\ UNCHANGED <<event, table, rows>>
       ELSE /\ pc' = [pc EXCEPT ![p] = "dead"]
            /\ table' = ReleaseLocks(p)
            /\ rows' = [rows EXCEPT ![p] = <<>>]
            /\ UNCHANGED event
  /\ UNCHANGED <<seq, url_queue, unfinished>>
  /\ UNCHANGED <<envvars, callervars, parentvars, threadvars, processed_count>>
  /\ UNCHANGED aside

\* the worker process is killed from outside (SIGKILL, out of memory): all its
\* threads end with it and its open transaction is rolled back
Crash(p) ==
  /\ pc[p] \in {"start", "loop", "locked", "committed", "sleep", "join_queue", "join_threads",
              "interrupted"}
  /\ Cardinality({q \in Procs : pc[q] = "dead"}) < MaxCrashes
  /\ pc' = [pc EXCEPT ![p] = "dead"]
  /\ table' = ReleaseLocks(p)
  /\ url_queue' = [url_queue EXCEPT ![p] = <<>>]
  /\ unfinished' = [unfinished EXCEPT ![p] = 0]
  /\ tpc' = [tpc EXCEPT ![p] = [t \in Threads |-> "none"]]
  /\ trow' = [trow EXCEPT ![p] = [t \in Threads |-> 0]]
  /\ tsuccess' = [tsuccess EXCEPT ![p] = [t \in Threads |-> FALSE]]
  /\ rows' = [rows EXCEPT ![p] = IF Returned(p) THEN @ ELSE <<>>]
  /\ UNCHANGED <<seq, event>>
  /\ UNCHANGED <<envvars, callervars, parentvars, processed_count>>
  /\ UNCHANGED aside

\* ------------------------------------------------------- scrape_worker
ThreadRuns(p) == pc[p] \in {"join_queue", "join_threads", "interrupted"}

\* while not shutdown_event.is_set(): row = url_queue.get(timeout=1)
\* (an empty queue times out and the loop goes round: no change of state)
GetRow(p, t) ==
  /\ ThreadRuns(p)
  /\ tpc[p][t] = "loop"
  /\ ~event[p]
  /\ url_queue[p] # <<>>
  /\ trow' = [trow EXCEPT ![p][t] = Head(url_queue[p])]
  /\ url_queue' = [url_queue EXCEPT ![p] = Tail(@)]
  /\ tpc' = [tpc EXCEPT ![p][t] = "scrape"]
  /\ tsuccess' = [tsuccess EXCEPT ![p][t] = FALSE]
  /\ UNCHANGED <<event, pc, rows, unfinished>>
  /\ UNCHANGED <<dbvars, envvars, callervars, parentvars, processed_count>>
  /\ UNCHANGED aside

\* the while condition finds shutdown_event set: the thread ends
ThreadExit(p, t) ==
  /\ ThreadRuns(p)
  /\ tpc[p][t] = "loop"
  /\ event[p]
  /\ tpc' = [tpc EXCEPT ![p][t] = "done"]
  /\ UNCHANGED <<trow, tsuccess>>
  /\ UNCHANGED <<dbvars, envvars, callervars, parentvars, procvars, processed_count>>
  /\ UNCHANGED aside

\* _, snippet = get_snippet(url): returns, or raises into "except Exception"
FetchPage(p, t) ==
  /\ ThreadRuns(p)
  /\ tpc[p][t] = "scrape"
  /\ tpc' = [tpc EXCEPT ![p][t] =
               IF Row(trow[p][t]).url \in fetch_fails THEN "finally" ELSE "update"]
  /\ UNCHANGED <<trow, tsuccess>>
  /\ UNCHANGED <<dbvars, envvars, callervars, parentvars, procvars, processed_count>>
  /\ UNCHANGED aside

\* UPDATE scraped_data SET snippet = %s WHERE id = %s
UpdateSnippet(id, s) ==
  {[r EXCEPT !.snippet = IF r.id = id THEN s ELSE r.snippet] : r \in table}

\* update_snippet_in_db(row_id, snippet); success = True.  The UPDATE waits
\* while another transaction holds the row's lock
UpdateRow(p, t) ==
  /\ ThreadRuns(p)
  /\ tpc[p][t] = "update"
  /\ Row(trow[p][t]).lock = 0
  /\ table' = UpdateSnippet(trow[p][t], Snippet(Row(trow[p][t]).url))
  /\ tsuccess' = [tsuccess EXCEPT ![p][t] = TRUE]
  /\ tpc' = [tpc EXCEPT ![p][t] = "finally"]
  /\ UNCHANGED <<seq, trow>>
  /\ UNCHANGED <<envvars, callervars, parentvars, procvars, processed_count>>
  /\ UNCHANGED aside

\* finally: url_queue.task_done(); with progress_lock: processed_count.value += 1;
\* the callback; time.sleep(delay)
FinishRow(p, t) ==
  /\ ThreadRuns(p)
  /\ tpc[p][t] = "finally"
  /\ unfinished' = [unfinished EXCEPT ![p] = @ - 1]
  /\ processed_count' = processed_count + 1
  /\ tpc' = [tpc EXCEPT ![p][t] = "loop"]
  /\ trow' = [trow EXCEPT ![p][t] = 0]
  /\ tsuccess' = [tsuccess EXCEPT ![p][t] = FALSE]
  /\ UNCHANGED <<event, pc, rows, url_queue>>
  /\ UNCHANGED <<dbvars, envvars, callervars, parentvars>>
  /\ UNCHANGED aside

\* ------------------------------------- scrape_worker: the finally block
\* The steps of the finally block one by one.  FinishRow above is the block as
\* one step, taken without a progress callback.

\* url_queue.task_done()
TaskDone(p, t) ==
  /\ ThreadRuns(p)
  /\ tpc[p][t] = "finally"
  /\ unfinished' = [unfinished EXCEPT ![p] = @ - 1]
  /\ tpc' = [tpc EXCEPT ![p][t] = "lock"]
  /\ UNCHANGED <<event, pc, rows, url_queue, trow, tsuccess, processed_count, progressvars>>
  /\ UNCHANGED <<dbvars, envvars, callervars, parentvars>>
  /\ UNCHANGED <<indexvars, crawlvars, zerovars>>

\* a lock that excludes nobody
LockFree_Always == TRUE

\* manager.Lock: free for the thread that asks for it
LockFree == progress_lock = NoThread

\* with progress_lock: (enter)
AcquireLock(p, t) ==
  /\ tpc[p][t] = "lock"
  /\ LockFree
  /\ progress_lock' = <<p, t>>
  /\ tpc' = [tpc EXCEPT ![p][t] = "get"]
  /\ UNCHANGED <<progress_callback, count_read, current_count, cb_active, cb_last>>
  /\ UNCHANGED <<trow, tsuccess, processed_count>>
  /\ UNCHANGED <<dbvars, envvars, callervars, parentvars, procvars>>
  /\ UNCHANGED <<indexvars, crawlvars, zerovars>>

\* processed_count.value += 1: the proxy's get ...
GetCount(p, t) ==
  /\ tpc[p][t] = "get"
  /\ count_read' = [count_read EXCEPT ![p][t] = processed_count]
  /\ tpc' = [tpc EXCEPT ![p][t] = "set"]
  /\ UNCHANGED <<progress_callback, progress_lock, current_count, cb_active, cb_last>>
  /\ UNCHANGED <<trow, tsuccess, processed_count>>
  /\ UNCHANGED <<dbvars, envvars, callervars, parentvars, procvars>>
  /\ UNCHANGED <<indexvars, crawlvars, zerovars>>

\* ... and the proxy's set
SetCount(p, t) ==
  /\ tpc[p][t] = "set"
  /\ processed_count' = count_read[p][t] + 1
  /\ tpc' = [tpc EXCEPT ![p][t] = "current"]
  /\ UNCHANGED <<trow, tsuccess, progressvars>>
  /\ UNCHANGED <<dbvars, envvars, callervars, parentvars, procvars>>
  /\ UNCHANGED <<indexvars, crawlvars, zerovars>>

\* current_count = processed_count.value; the with block ends.  Without a
\* callback: time.sleep(delay) and round the loop
ReadCurrent(p, t) ==
  /\ tpc[p][t] = "current"
  /\ progress_lock' = IF progress_lock = <<p, t>> THEN NoThread ELSE progress_lock
  /\ IF progress_callback
       THEN /\ current_count' = [current_count EXCEPT ![p][t] = processed_count]
            /\ tpc' = [tpc EXCEPT ![p][t] = "callback"]
            /\ UNCHANGED <<trow, tsuccess, count_read>>
       ELSE /\ tpc' = [tpc EXCEPT ![p][t] = "loop"]
            /\ trow' = [trow EXCEPT ![p][t] = 0]
            /\ tsuccess' = [tsuccess EXCEPT ![p][t] = FALSE]
            /\ count_read' = [count_read EXCEPT ![p][t] = 0]
            /\ UNCHANGED current_count
  /\ UNCHANGED <<progress_callback, cb_active, cb_last, processed_count>>
  /\ UNCHANGED <<dbvars, envvars, callervars, parentvars, procvars>>
  /\ UNCHANGED <<indexvars, crawlvars, zerovars>>

\* if progress_callback: progress_callback(current_count, success) is entered
CallbackBegin(p, t) ==
  /\ tpc[p][t] = "callback"
  /\ cb_active' = cb_active \cup {<<p, t>>}
  /\ cb_last' = current_count[p][t]
  /\ tpc' = [tpc EXCEPT ![p][t] = "in_callback"]
  /\ UNCHANGED <<progress_callback, progress_lock, count_read, current_count>>
  /\ UNCHANGED <<trow, tsuccess, processed_count>>
  /\ UNCHANGED <<dbvars, envvars, callervars, parentvars, procvars>>
  /\ UNCHANGED <<indexvars, crawlvars, zerovars>>

\* the callback returns; time.sleep(delay) and round the loop
CallbackEnd(p, t) ==
  /\ tpc[p][t] = "in_callback"
  /\ cb_active' = cb_active \ {<<p, t>>}
  /\ tpc' = [tpc EXCEPT ![p][t] = "loop"]
  /\ trow' = [trow EXCEPT ![p][t] = 0]
  /\ tsuccess' = [tsuccess EXCEPT ![p][t] = FALSE]
  /\ count_read' = [count_read EXCEPT ![p][t] = 0]
  /\ current_count' = [current_count EXCEPT ![p][t] = 0]
  /\ UNCHANGED <<progress_callback, progress_lock, cb_last, processed_count>>
  /\ UNCHANGED <<dbvars, envvars, callervars, parentvars, procvars>>
  /\ UNCHANGED <<indexvars, crawlvars, zerovars>>

\* a run of start_scraping(domains, progress_cb) at the point where every
\* worker process has put its first batch into its url_queue
ProgressStart ==
  /\ table = {[id |-> 1, url |-> 1, xmin |-> 0, snippet |-> NULL, crawl_delay |-> 1, lock |-> 0],
              [id |-> 2, url |-> 2, xmin |-> 0, snippet |-> NULL, crawl_delay |-> 1, lock |-> 0],
              [id |-> 4, url |-> 3, xmin |-> 0, snippet |-> NULL, crawl_delay |-> 2, lock |-> 0]}
  /\ seq = 4
  /\ schema_in_path = TRUE
  /\ cpc = <<"done", "idle">> /\ cdom = <<3, 1>> /\ curl = <<3, 1>>
  /\ clist = <<<<2, 3>>, <<>>>> /\ cdelay = <<2, 1>>
  /\ ctx = <<"ok", "ok">> /\ clocal = <<FALSE, FALSE>>
  /\ total_urls = <<4, 0>>
  /\ ppc = "join" /\ spawned = NumProcs /\ parent_event = FALSE
  /\ event = [p \in Procs |-> FALSE]
  /\ rows = [p \in Procs |-> IF p = 1 THEN <<1, 2>> ELSE IF p = 2 THEN <<4>> ELSE <<>>]
  /\ pc = [p \in Procs |-> IF rows[p] = <<>> THEN "sleep" ELSE "join_queue"]
  /\ url_queue = rows
  /\ unfinished = [p \in Procs |-> Len(rows[p])]
  /\ tpc = [p \in Procs |-> [t \in Threads |-> IF rows[p] = <<>> THEN "none" ELSE "loop"]]
  /\ trow = [p \in Procs |-> [t \in Threads |-> 0]]
  /\ tsuccess = [p \in Procs |-> [t \in Threads |-> FALSE]]
  /\ processed_count = 0

ProgressInit ==
  /\ ProgressStart
  /\ MainIdle
  /\ CrawlIdle
  /\ ZeroIdle
  /\ fetch_fails \in {{}, {1}, {1, 2}}
  /\ discover_fails = {}
  /\ progress_callback \in BOOLEAN
  /\ progress_lock = NoThread
  /\ count_read = [p \in Procs |-> [t \in Threads |-> 0]]
  /\ current_count = [p \in Procs |-> [t \in Threads |-> 0]]
  /\ cb_active = {}
  /\ cb_last = 0

FinallyStep(p, t) ==
  \/ TaskDone(p, t) \/ AcquireLock(p, t) \/ GetCount(p, t) \/ SetCount(p, t)
  \/ ReadCurrent(p, t) \/ CallbackBegin(p, t) \/ CallbackEnd(p, t)

ProgressNext ==
  \/ \E p \in Procs : \E t \in Threads :
       GetRow(p, t) \/ FetchPage(p, t) \/ UpdateRow(p, t) \/ FinallyStep(p, t)
  \/ \E p \in Procs : JoinQueue(p)

ProgressSpec == ProgressInit /\ [][ProgressNext]_vars

\* ------------------------------------------------------------ ZeroMain
\* change_state(new_state) with an allowed state
ChangeState(new_state) ==
  /\ state' = new_state
  /\ left_index' = (left_index \/ (mpc \in {"wait", "check", "reconstruct"} /\ new_state # "INDEX"))

\* start_indexing(domains), called from a GUI thread
StartIndexing ==
  /\ running
  /\ \E d \in {"keep", "some"} :
       current_domains' = IF d = "some" THEN "some" ELSE current_domains
  /\ ChangeState("INDEX")
  /\ UNCHANGED <<running, indexing_in_progress, mpc, scraping_thread, scraping_finished_event>>
  /\ UNCHANGED <<schedvars, progressvars, crawlvars, zerovars>>
  /\ UNCHANGED <<current_query, ai_mode>>

\* start_search(query, ai_mode), called from a GUI thread
StartSearch ==
  /\ running
  /\ \E q \in {"keep", "some"} :
       current_query' = IF q = "some" THEN "some" ELSE current_query
  /\ \E a \in {"keep", "True", "False"} :
       ai_mode' = IF a = "keep" THEN ai_mode ELSE a
  /\ ChangeState("SEARCH")
  /\ UNCHANGED <<running, indexing_in_progress, current_domains, mpc, scraping_thread,
                 scraping_finished_event>>
  /\ UNCHANGED <<schedvars, progressvars, crawlvars, zerovars>>

\* request_shutdown(), called from a GUI thread
RequestShutdown ==
  /\ running
  /\ ChangeState("SAVE_SHUTDOWN")
  /\ UNCHANGED <<running, indexing_in_progress, current_domains, mpc, scraping_thread,
                 scraping_finished_event>>
  /\ UNCHANGED <<schedvars, progressvars, crawlvars, zerovars>>
  /\ UNCHANGED <<current_query, ai_mode>>

\* loop: state == "INDEX": handle_index() up to scraping_thread.start(); with no
\* domains it returns through its finally block
HandleIndex ==
  /\ running /\ mpc = "loop" /\ state = "INDEX"
  /\ \E got \in {"some", "empty"} :
       LET given == IF current_domains = "None" THEN got ELSE current_domains
       IN IF given = "empty"
            THEN /\ current_domains' = "None"
                 /\ state' = "HALT"
                 /\ UNCHANGED <<mpc, indexing_in_progress, scraping_thread,
                                scraping_finished_event, left_index>>
            ELSE /\ current_domains' = given
                 /\ indexing_in_progress' = TRUE
                 /\ scraping_finished_event' = FALSE
                 /\ scraping_thread' = "insert"
                 /\ left_index' = FALSE
                 /\ mpc' = "wait"
                 /\ UNCHANGED state
  /\ UNCHANGED running
  /\ UNCHANGED <<schedvars, progressvars, crawlvars, zerovars>>
  /\ UNCHANGED <<current_query, ai_mode>>

\* while not scraping_finished_event.is_set() and self.state == "INDEX": the
\* loop is left
WaitOver ==
  /\ mpc = "wait"
  /\ scraping_finished_event \/ state # "INDEX"
  /\ mpc' = "check"
  /\ UNCHANGED <<state, running, indexing_in_progress, current_domains, scraping_thread,
                 scraping_finished_event, left_index>>
  /\ UNCHANGED <<schedvars, progressvars, crawlvars, zerovars>>
  /\ UNCHANGED <<current_query, ai_mode>>

\* the finally block of handle_index
IndexFinally ==
  /\ indexing_in_progress' = FALSE
  /\ current_domains' = "None"
  /\ state' = "HALT"
  /\ mpc' = "loop"

\* if self.state != "INDEX": "Indexing interrupted", return (through finally)
CheckState ==
  /\ mpc = "check"
  /\ IF state # "INDEX"
       THEN IndexFinally /\ UNCHANGED left_index
       ELSE /\ mpc' = "reconstruct"
            /\ UNCHANGED <<state, indexing_in_progress, current_domains, left_index>>
  /\ UNCHANGED <<running, scraping_thread, scraping_finished_event>>
  /\ UNCHANGED <<schedvars, progressvars, crawlvars, zerovars>>
  /\ UNCHANGED <<current_query, ai_mode>>

\* reconstruct_index(), then the finally block
Reconstruct ==
  /\ mpc = "reconstruct"
  /\ IndexFinally
  /\ UNCHANGED <<running, scraping_thread, scraping_finished_event, left_index>>
  /\ UNCHANGED <<schedvars, progressvars, crawlvars, zerovars>>
  /\ UNCHANGED <<current_query, ai_mode>>

\* how a call made by handle_search ends
CallEnds == {"returns", "raises"}

\* what handle_search hands to gui_show_results: the url list of
\* semantic_search, the report of generate_report, or "Search failed: ..."
Shown(ai, found, report) ==
  IF found = "raises" THEN {"error"}
  ELSE IF ~ai THEN {"urls"}
  ELSE IF report = "raises" THEN {"error"}
  ELSE {"report"}

\* how that call of handle_search went
OutcomeOf(ai, found, report) ==
  IF found = "raises" THEN "search_failed"
  ELSE IF ~ai THEN "urls"
  ELSE IF report = "raises" THEN "report_failed"
  ELSE "report"

\* loop: state == "SEARCH": handle_search(); a missing query or ai mode is
\* asked from the GUI; finally: current_query = None, ai_mode = None,
\* change_state("HALT")
HandleSearch ==
  /\ running /\ mpc = "loop" /\ state = "SEARCH"
  /\ \E asked \in {"some", "empty"} : \E mode \in BOOLEAN :
     \E found \in CallEnds : \E report \in CallEnds :
       LET q == IF current_query = "None" THEN asked ELSE current_query
           ai == IF ai_mode = "None" THEN mode ELSE ai_mode = "True"
       IN IF q = "empty"
            THEN /\ search_outcome' = "no_query"
                 /\ UNCHANGED shown
            ELSE /\ search_outcome' = OutcomeOf(ai, found, report)
                 /\ shown' = Shown(ai, found, report)
  /\ current_query' = "None"
  /\ ai_mode' = "None"
  /\ state' = "HALT"
  /\ UNCHANGED <<running, indexing_in_progress, current_domains, mpc, scraping_thread,
                 scraping_finished_event, left_index>>
  /\ UNCHANGED <<schedvars, progressvars, crawlvars, domainvars, faissvars, fetched, modelvars>>

\* loop: state == "SAVE_SHUTDOWN": handle_save_shutdown(): end_scraping(),
\* running = False, state = "HALT"
HandleSaveShutdown ==
  /\ running /\ mpc = "loop" /\ state = "SAVE_SHUTDOWN"
  /\ parent_event' = TRUE
  /\ running' = FALSE
  /\ state' = "HALT"
  /\ UNCHANGED <<indexing_in_progress, current_domains, mpc, scraping_thread,
                 scraping_finished_event, left_index>>
  /\ UNCHANGED <<dbvars, envvars, callervars, ppc, spawned, procvars, threadvars,
                 processed_count, progressvars, crawlvars, zerovars>>
  /\ UNCHANGED <<current_query, ai_mode>>

\* scraping_thread_target: start_scraping has inserted the urls of the domains
\* and goes on to start the worker processes
ScrapeInserted ==
  /\ scraping_thread = "insert"
  /\ scraping_thread' = "workers"
  /\ UNCHANGED <<state, running, indexing_in_progress, current_domains, mpc,
                 scraping_finished_event, left_index>>
  /\ UNCHANGED <<schedvars, progressvars, crawlvars, zerovars>>
  /\ UNCHANGED <<current_query, ai_mode>>

\* scraping_thread_target: start_scraping returns or raises; finally:
\* scraping_finished_event.set()
ScrapeEnds ==
  /\ scraping_thread \in {"insert", "workers"}
  /\ scraping_thread' = "over"
  /\ scraping_finished_event' = TRUE
  /\ UNCHANGED <<state, running, indexing_in_progress, current_domains, mpc, left_index>>
  /\ UNCHANGED <<schedvars, progressvars, crawlvars, zerovars>>
  /\ UNCHANGED <<current_query, ai_mode>>

MainInit == Init /\ schema_in_path /\ fetch_fails = {} /\ discover_fails = {}

MainNext ==
  \/ StartIndexing \/ StartSearch \/ RequestShutdown
  \/ HandleIndex \/ WaitOver \/ CheckState \/ Reconstruct
  \/ HandleSearch \/ HandleSaveShutdown
  \/ ScrapeInserted \/ ScrapeEnds

MainSpec == MainInit /\ [][MainNext]_vars

\* a GUI that offers its start buttons only while the application is at rest
\* (state HALT) and its shutdown button at any time
StartAtRest == state = "HALT" /\ (StartIndexing \/ StartSearch)

\* the thread that runs ZeroMain.loop: while self.running, one handler after
\* the other, time.sleep(0.1) in between
LoopStep ==
  \/ HandleIndex \/ WaitOver \/ CheckState \/ Reconstruct
  \/ HandleSearch \/ HandleSaveShutdown

MainLiveNext ==
  \/ StartAtRest \/ RequestShutdown
  \/ LoopStep
  \/ ScrapeInserted \/ ScrapeEnds

\* the loop thread is never starved; nothing is assumed of the GUI and of the
\* scraping thread
MainLiveSpec == MainInit /\ [][MainLiveNext]_vars /\ WF_vars(LoopStep)

\* ------------------------------------------------ ZeroScan.py: ZeroSkan
\* scaled stand-in for max_depth=3 of ZeroSkan.__init__
max_depth == 2
\* how long a GET may take, in seconds
MaxLatency == 1

\* start_urls = [f"https://{domain}", f"https://www.{domain}"]
start_urls(d) == <<RootUrl(d), WwwUrl(d)>>

\* the domain scan_all_domains is at
Domain == domains[sdom]

\* self.session.get(url, timeout=10) is sent now and takes lat seconds
SendGet(lat) ==
  /\ last_fetch' = now
  /\ nfetch' = nfetch + 1
  /\ now' = now + lat

\* scan_all_domains: for domain in self.domains: crawl_domain(domain) is entered
ScanDomain ==
  /\ kpc = "idle" /\ ~links_saved /\ sdom <= Len(domains)
  /\ kpc' = "start"
  /\ start_i' = 1
  /\ queue' = <<>>
  /\ visited' = {}
  /\ discovered_urls' = <<>>
  /\ links' = {}
  /\ nfetch' = 0
  /\ last_fetch' = 0
  /\ fetched' = <<>>
  /\ UNCHANGED <<webvars, domains, discovered_links, links_saved, sdom, current, now>>
  /\ UNCHANGED <<schedvars, progressvars, indexvars, domainvars, faissvars, guivars, modelvars>>

\* scan_all_domains: after the last domain, self._save_discovered_links()
SaveLinks ==
  /\ kpc = "idle" /\ ~links_saved /\ sdom > Len(domains)
  /\ links_saved' = TRUE
  /\ UNCHANGED <<webvars, domains, discovered_links, sdom, kpc, start_i, queue, visited,
                 discovered_urls, current, links, now, last_fetch, nfetch>>
  /\ UNCHANGED <<schedvars, progressvars, indexvars, zerovars>>

\* crawl_domain: for start_url in start_urls: GET; on 200 queue.append and
\* break; an exception or another status goes on to the next start url; after
\* the loop "if not queue: return []"
TryStartUrl ==
  /\ kpc = "start"
  /\ \E lat \in 0..MaxLatency : SendGet(lat)
  /\ LET u == start_urls(Domain)[start_i]
     IN IF status[u] = "200"
          THEN /\ queue' = <<<<u, 0>>>>
               /\ kpc' = "loop"
               /\ UNCHANGED start_i
          ELSE IF start_i < Len(start_urls(Domain))
          THEN /\ start_i' = start_i + 1
               /\ UNCHANGED <<queue, kpc>>
          ELSE /\ kpc' = "return"
               /\ UNCHANGED <<queue, start_i>>
  /\ UNCHANGED <<webvars, domains, discovered_links, links_saved, sdom, visited,
                 discovered_urls, current, links>>
  /\ UNCHANGED <<schedvars, progressvars, indexvars, zerovars>>

\* no url is ever remembered as visited
Visit_Forget(url) == visited

\* visited.add(current_url)
Visit(url) == visited \cup {url}

\* while queue: current_url, depth = queue.popleft(); a visited or too deep
\* url is skipped; else visited.add(current_url).  An empty queue ends the loop
PopUrl ==
  /\ kpc = "loop"
  /\ IF queue = <<>>
       THEN /\ kpc' = "return"
            /\ UNCHANGED <<queue, current, visited>>
       ELSE /\ current' = Head(queue)
            /\ queue' = Tail(queue)
            /\ IF Head(queue)[1] \in visited \/ Head(queue)[2] > max_depth
                 THEN UNCHANGED <<kpc, visited>>
                 ELSE /\ visited' = Visit(Head(queue)[1])
                      /\ kpc' = "fetch"
  /\ UNCHANGED <<webvars, domains, discovered_links, links_saved, sdom, start_i,
                 discovered_urls, links, now, last_fetch, nfetch>>
  /\ UNCHANGED <<schedvars, progressvars, indexvars, zerovars>>

\* every answer taken for a 200
StatusOk_Any(url) == TRUE

\* response.status_code == 200
StatusOk(url) == status[url] = "200"

\* response = self.session.get(current_url, timeout=10); another status than
\* 200: continue; an exception: logged, continue; else the url is appended to
\* discovered_urls and, below max_depth, its links are extracted
FetchUrl ==
  /\ kpc = "fetch"
  /\ \E lat \in 0..MaxLatency : SendGet(lat)
  /\ fetched' = Append(fetched, current[1])
  /\ IF StatusOk(current[1])
       THEN /\ discovered_urls' = Append(discovered_urls, current[1])
            /\ links' = IF current[2] < max_depth THEN ExtractLinks(current[1], Domain) ELSE {}
            /\ kpc' = "links"
       ELSE /\ kpc' = "loop"
            /\ UNCHANGED <<discovered_urls, links>>
  /\ UNCHANGED <<webvars, domains, discovered_links, links_saved, sdom, start_i, queue,
                 visited, current>>
  /\ UNCHANGED <<schedvars, progressvars, indexvars, domainvars, faissvars, guivars, modelvars>>

\* for link in links (a set, in any order): if link not in visited and link not
\* in [u for u, _ in queue]: queue.append((link, depth + 1))
EnqueueLink ==
  /\ kpc = "links" /\ links # {}
  /\ \E link \in links :
       /\ links' = links \ {link}
       /\ queue' = IF link \notin visited /\ link \notin {e[1] : e \in Range(queue)}
                     THEN Append(queue, <<link, current[2] + 1>>)
                     ELSE queue
  /\ UNCHANGED <<webvars, domains, discovered_links, links_saved, sdom, kpc, start_i,
                 visited, discovered_urls, current, now, last_fetch, nfetch>>
  /\ UNCHANGED <<schedvars, progressvars, indexvars, zerovars>>

\* time.sleep(1) at the end of the iteration of a crawled page
SleepAfterPage ==
  /\ kpc = "links" /\ links = {}
  /\ now' = now + 1
  /\ kpc' = "loop"
  /\ UNCHANGED <<webvars, domains, discovered_links, links_saved, sdom, start_i, queue,
                 visited, discovered_urls, current, links, last_fetch, nfetch>>
  /\ UNCHANGED <<schedvars, progressvars, indexvars, zerovars>>

\* a scan that ends with the domain at index i
NextDomain_Stop(i) == Len(domains) + 1

\* the domain scan_all_domains goes on with after the one at index i
NextDomain(i) == i + 1

\* crawl_domain returns discovered_urls ([] when no start url answered 200);
\* scan_all_domains: if discovered_urls: self.discovered_links[domain] = ...
CrawlReturn ==
  /\ kpc = "return"
  /\ discovered_links' = IF discovered_urls # <<>>
                            THEN [discovered_links EXCEPT ![Domain] = discovered_urls]
                            ELSE discovered_links
  /\ sdom' = NextDomain(sdom)
  /\ kpc' = "idle"
  /\ UNCHANGED <<webvars, domains, links_saved, start_i, queue, visited, discovered_urls,
                 current, links, now, last_fetch, nfetch>>
  /\ UNCHANGED <<schedvars, progressvars, indexvars, zerovars>>

CrawlInit ==
  /\ SchedulerIdle /\ schema_in_path /\ fetch_fails = {} /\ discover_fails = {}
  /\ ProgressIdle /\ MainIdle /\ CrawlerIdle /\ ZeroIdle
  /\ status \in Outcomes
  /\ hrefs \in Webs
  /\ robots_delay \in {1, 2}

CrawlNext ==
  \/ ScanDomain \/ SaveLinks \/ TryStartUrl \/ PopUrl \/ FetchUrl \/ EnqueueLink
  \/ SleepAfterPage \/ CrawlReturn

CrawlSpec == CrawlInit /\ [][CrawlNext]_vars

\* ------------------------- ZeroScan.py: add_domain and remove_domain
\* a text is the sequence of its pieces: "http://" + "www." + "d1" + "/" + "p"
\* is <<"http://", "www.", "d1", "/", "p">>; "ftp://d1" is <<"ftp:", "/", "/", "d1">>
DomainTexts ==
  {<<"d0">>, <<"d1">>, <<"d2">>, <<"www.", "d1">>, <<"https://", "d1">>,
   <<"d1", "/", "p">>, <<"http://", "www.", "d1", "/", "p">>, <<"ftp:", "/", "/", "d1">>}

\* text.replace(piece, ''): every occurrence goes
Replace(text, piece) == SelectSeq(text, LAMBDA x : x # piece)

\* text.split('/')[0]
SplitFirst(text) ==
  IF \E i \in 1..Len(text) : text[i] = "/"
  THEN SubSeq(text, 1, Min({i \in 1..Len(text) : text[i] = "/"}) - 1)
  ELSE text

\* add_domain: the two assignments to domain
NormalizeDomain(text) ==
  SplitFirst(Replace(Replace(Replace(text, "http://"), "https://"), "www."))

\* domain in self.domains
InDomains(d) == \E i \in 1..Len(domains) : domains[i] = d

\* self.domains.remove(domain): the first occurrence goes
ListRemove(list, d) ==
  LET i == Min({j \in 1..Len(list) : list[j] = d})
  IN SubSeq(list, 1, i - 1) \o SubSeq(list, i + 1, Len(list))

\* del self.discovered_links[domain]
DictDel(dict, k) == [x \in DOMAIN dict \ {k} |-> dict[x]]

\* add_domain(text)
AddDomain(text) ==
  LET domain == NormalizeDomain(text)
  IN /\ add_arg' = text
     /\ IF ~InDomains(domain)
        THEN /\ domains' = Append(domains, domain)
             /\ add_ret' = "True"
        ELSE /\ add_ret' = "False"
             /\ UNCHANGED domains
     /\ UNCHANGED <<webvars, discovered_links, links_saved, sdom, kpc, start_i, queue,
                    visited, discovered_urls, current, links, now, last_fetch, nfetch>>
     /\ UNCHANGED <<schedvars, progressvars, indexvars, faissvars, latevars>>

\* remove_domain(text)
RemoveDomain(text) ==
  /\ add_arg' = text
  /\ IF InDomains(text)
     THEN /\ domains' = ListRemove(domains, text)
          /\ discovered_links' =
               IF text \in DOMAIN discovered_links
               THEN DictDel(discovered_links, text) ELSE discovered_links
          /\ add_ret' = "True"
     ELSE /\ add_ret' = "False"
          /\ UNCHANGED <<domains, discovered_links>>
  /\ UNCHANGED <<webvars, links_saved, sdom, kpc, start_i, queue, visited,
                 discovered_urls, current, links, now, last_fetch, nfetch>>
  /\ UNCHANGED <<schedvars, progressvars, indexvars, faissvars, latevars>>

\* _load_domains: the default list, or the list of a duplicate-free domains.json
LoadedDomains ==
  {<<<<"d0">>, <<"d1">>>>, <<<<"www.", "d1">>>>, <<<<"d1">>, <<"d2">>, <<"d0">>>>}

DomainInit ==
  /\ SchedulerIdle /\ schema_in_path /\ fetch_fails = {} /\ discover_fails = {}
  /\ ProgressIdle /\ MainIdle /\ ZeroIdle
  /\ domains \in LoadedDomains
  /\ discovered_links = [d \in {<<"d1">>} |-> <<RootUrl("d1")>>]
  /\ links_saved = FALSE /\ sdom = 1 /\ kpc = "idle" /\ start_i = 1
  /\ queue = <<>> /\ visited = {} /\ discovered_urls = <<>>
  /\ current = <<RootUrl("d0"), 0>> /\ links = {}
  /\ now = 0 /\ last_fetch = 0 /\ nfetch = 0
  /\ status = AllOk /\ hrefs = NoHrefs /\ robots_delay = 1

DomainNext == \E text \in DomainTexts : AddDomain(text) \/ RemoveDomain(text)

DomainSpec == DomainInit /\ [][DomainNext]_vars

\* ------------------------------ ZeroIndex.py and ZeroScraper.py's queue
MaxRestarts == 1
MaxRemoved == 1

Pages == {"A", "B"}
\* what add_to_queue is given: page A reads "cat", later "dog"; page B reads
\* "dog", or has neither title nor snippet
Scraped ==
  {[url |-> "A", title |-> "cat", snippet |-> ""],
   [url |-> "A", title |-> "", snippet |-> "dog"],
   [url |-> "B", title |-> "", snippet |-> "dog"],
   [url |-> "B", title |-> "", snippet |-> ""]}
Queries == {"cat", "dog"}
TopKs == {1, 2}

\* what lies outside ZeroIndex and the queue file
outside ==
  <<schedvars, progressvars, indexvars, crawlvars, domainvars, search_thread, latevars>>

\* the fields of this ZeroIndex
Fields ==
  [index |-> index, url_to_id |-> url_to_id, id_to_metadata |-> id_to_metadata,
   next_id |-> next_id]

\* _create_embedding: the direction of model.encode(f"{title} [SEP] {snippet}"),
\* one coordinate for each word and one for the separator; the norm is divided
\* out in InnerProduct
Embedding(title, snippet) ==
  <<(IF title = "cat" THEN 1 ELSE 0) + (IF snippet = "cat" THEN 1 ELSE 0),
    (IF title = "dog" THEN 1 ELSE 0) + (IF snippet = "dog" THEN 1 ELSE 0),
    1>>

\* search: model.encode(query)
QueryEmbedding(q) == <<IF q = "cat" THEN 2 ELSE 0, IF q = "dog" THEN 2 ELSE 0, 1>>

Dot(a, b) == a[1] * b[1] + a[2] * b[2] + a[3] * b[3]

\* IndexFlatIP over normalised vectors: the squared cosine, in hundredths
\* (every coordinate is >= 0, so the order is that of the cosine)
InnerProduct(a, b) == (100 * Dot(a, b) * Dot(a, b)) \div (Dot(a, a) * Dot(b, b))

\* index.search(query_embedding, k): the k slots of highest score, best first
RECURSIVE TopSlots(_, _, _, _)
TopSlots(ix, qv, slots, k) ==
  IF k = 0 \/ slots = {} THEN <<>>
  ELSE LET best == CHOOSE i \in slots : \A j \in slots :
                     \/ InnerProduct(qv, ix[i + 1]) > InnerProduct(qv, ix[j + 1])
                     \/ /\ InnerProduct(qv, ix[i + 1]) = InnerProduct(qv, ix[j + 1])
                        /\ i <= j
       IN <<<<InnerProduct(qv, ix[best + 1]), best>>>>
            \o TopSlots(ix, qv, slots \ {best}, k - 1)

\* search, lines 192-193
FaissSearch(ix, q, k) ==
  TopSlots(ix, QueryEmbedding(q), 0..(Len(ix) - 1), Min({k, Len(ix)}))

\* search, lines 196-208: metadata = self.id_to_metadata.get(idx, {})
Collect(hs, meta) ==
  [i \in 1..Len(hs) |->
     LET idx == hs[i][2]
         known == idx \in DOMAIN meta
     IN [rank |-> i,
         url |-> IF known THEN meta[idx].url ELSE "",
         title |-> IF known THEN meta[idx].title ELSE "",
         snippet |-> IF known THEN meta[idx].snippet ELSE "",
         similarity_score |-> hs[i][1]]]

\* search(q, k) run alone on the fields st
SearchOf(st, q, k) ==
  IF Len(st.index) = 0 THEN <<>>
  ELSE Collect(FaissSearch(st.index, q, k), st.id_to_metadata)

\* get_urls_by_similarity: [result['url'] for result in results if result['url']]
UrlsOf(res) ==
  LET kept == SelectSeq(res, LAMBDA r : r.url # "")
  IN [i \in 1..Len(kept) |-> kept[i].url]

\* process_queue, line 130, with the check left out: no url counts as indexed
AlreadyIndexed_Never(map, url) == FALSE

\* process_queue, line 130: if url in self.url_to_id
AlreadyIndexed(map, url) == url \in DOMAIN map

\* process_queue, line 137: if not title and not snippet
Blank(data) == data.title = "" /\ data.snippet = ""

\* process_queue, lines 142-145: the vector is appended
WithVector(st, data) ==
  [st EXCEPT !.index = Append(st.index, Embedding(data.title, data.snippet))]

\* process_queue, lines 148-156
WithMetadata(st, data) ==
  [st EXCEPT
     !.url_to_id = (data.url :> st.next_id) @@ st.url_to_id,
     !.id_to_metadata =
        (st.next_id :> [url |-> data.url, title |-> data.title,
                        snippet |-> data.snippet, deleted |-> FALSE])
          @@ st.id_to_metadata,
     !.next_id = st.next_id + 1]

\* process_queue's loop over the records from position i on, run alone
RECURSIVE ProcessFrom(_, _, _)
ProcessFrom(st, recs, i) ==
  IF i > Len(recs) THEN st
  ELSE IF AlreadyIndexed(st.url_to_id, recs[i].url) \/ Blank(recs[i])
       THEN ProcessFrom(st, recs, i + 1)
       ELSE ProcessFrom(WithMetadata(WithVector(st, recs[i]), recs[i]), recs, i + 1)

\* ZeroScraper.add_to_queue(url, scraped_data): self.queue_data[url] = ..., and
\* _save_queue writes the whole dict
AddToQueue(url, data) ==
  /\ wpc = "idle" /\ rpc = "idle"
  /\ LET rec == [url |-> url, title |-> data.title, snippet |-> data.snippet]
     IN queue_file' =
          IF \E i \in 1..Len(queue_file) : queue_file[i].url = url
          THEN [i \in 1..Len(queue_file) |->
                  IF queue_file[i].url = url THEN rec ELSE queue_file[i]]
          ELSE Append(queue_file, rec)
  /\ settled' = FALSE
  /\ UNCHANGED <<memvars, filevars, restarts, writervars, readervars, removed>>
  /\ UNCHANGED outside

\* ZeroScraper.clear_queue
ClearQueue ==
  /\ wpc = "idle" /\ rpc = "idle"
  /\ queue_file # <<>>
  /\ queue_file' = <<>>
  /\ settled' = FALSE
  /\ UNCHANGED <<memvars, filevars, restarts, writervars, readervars, removed>>
  /\ UNCHANGED outside

\* a search that is running sees the writer begin or end
Disturbed == IF rpc \in {"idle", "return"} THEN overlap ELSE "mixed"

\* process_queue is called
ProcessQueue ==
  /\ wpc = "idle" /\ (search_thread \/ rpc = "idle")
  /\ wpc' = "read" /\ wop' = "process"
  /\ before' = Fields
  /\ overlap' = Disturbed
  /\ UNCHANGED <<queue_file, memvars, filevars, restarts, queue_data, qi, new_entries,
                 rpc, query, top_k, hits, results, removed, settled>>
  /\ UNCHANGED outside

\* the state rebuild_index puts in place before it calls process_queue, with
\* next_id left as it was
Reset_KeepsNextId == [EmptyState EXCEPT !.next_id = next_id]

\* rebuild_index, lines 265-268
Reset == EmptyState

\* rebuild_index is called: the reset
RebuildIndex ==
  /\ wpc = "idle" /\ (search_thread \/ rpc = "idle")
  /\ wpc' = "read" /\ wop' = "rebuild"
  /\ before' = Fields
  /\ index' = Reset.index
  /\ url_to_id' = Reset.url_to_id
  /\ id_to_metadata' = Reset.id_to_metadata
  /\ next_id' = Reset.next_id
  /\ overlap' = Disturbed
  /\ settled' = FALSE
  /\ UNCHANGED <<queue_file, filevars, restarts, queue_data, qi, new_entries,
                 rpc, query, top_k, hits, results, removed>>
  /\ UNCHANGED outside

\* process_queue, lines 116-126: json.load of queue.json
ReadQueue ==
  /\ wpc = "read"
  /\ queue_data' = queue_file
  /\ qi' = 1
  /\ new_entries' = 0
  /\ wpc' = "loop"
  /\ UNCHANGED <<queue_file, memvars, filevars, restarts, wop, before, readervars,
                 removed, settled>>
  /\ UNCHANGED outside

\* process_queue, lines 128-139: a record that is passed over
SkipRecord ==
  /\ wpc = "loop" /\ qi <= Len(queue_data)
  /\ AlreadyIndexed(url_to_id, queue_data[qi].url) \/ Blank(queue_data[qi])
  /\ qi' = qi + 1
  /\ UNCHANGED <<queue_file, memvars, filevars, restarts, wpc, wop, queue_data,
                 new_entries, before, readervars, removed, settled>>
  /\ UNCHANGED outside

\* process_queue, lines 128-145: self.index.add
AddVector ==
  /\ wpc = "loop" /\ qi <= Len(queue_data)
  /\ ~AlreadyIndexed(url_to_id, queue_data[qi].url) /\ ~Blank(queue_data[qi])
  /\ index' = WithVector(Fields, queue_data[qi]).index
  /\ wpc' = "store"
  /\ UNCHANGED <<queue_file, url_to_id, id_to_metadata, next_id, filevars, restarts,
                 wop, queue_data, qi, new_entries, before, readervars, removed, settled>>
  /\ UNCHANGED outside

\* process_queue, lines 148-159
StoreMetadata ==
  /\ wpc = "store"
  /\ LET st == WithMetadata(Fields, queue_data[qi])
     IN /\ url_to_id' = st.url_to_id
        /\ id_to_metadata' = st.id_to_metadata
        /\ next_id' = st.next_id
  /\ new_entries' = new_entries + 1
  /\ removed' = removed \ {queue_data[qi].url}
  /\ qi' = qi + 1
  /\ wpc' = "loop"
  /\ UNCHANGED <<queue_file, index, filevars, restarts, wop, queue_data, before,
                 readervars, settled>>
  /\ UNCHANGED outside

\* _save_index: both files written ("saved"), or faiss.write_index done and
\* the metadata file opened, hence truncated, and not written to its end
\* ("truncated")
SaveOutcomes == {"saved", "truncated"}

\* process_queue, lines 164-168, rebuild_index's return included
FinishQueue ==
  /\ wpc = "loop" /\ qi > Len(queue_data)
  /\ IF new_entries > 0
     THEN \E out \in SaveOutcomes :
            /\ index_file' = [exists |-> TRUE, vectors |-> index]
            /\ metadata_file' =
                 IF out = "saved"
                 THEN [exists |-> TRUE, readable |-> TRUE,
                       metadata |-> [Fields EXCEPT !.index = <<>>]]
                 ELSE [exists |-> TRUE, readable |-> FALSE, metadata |-> EmptyState]
     ELSE UNCHANGED filevars
  /\ wpc' = "done"
  /\ overlap' = Disturbed
  /\ settled' = TRUE
  /\ UNCHANGED <<queue_file, memvars, restarts, wop, queue_data, qi, new_entries,
                 before, rpc, query, top_k, hits, results, removed>>
  /\ UNCHANGED outside

\* process_queue or rebuild_index has returned: its locals are gone
WriterReturn ==
  /\ wpc = "done"
  /\ wpc' = "idle" /\ wop' = "none"
  /\ queue_data' = <<>> /\ qi' = 1 /\ new_entries' = 0
  /\ before' = EmptyState
  /\ UNCHANGED <<queue_file, memvars, filevars, restarts, readervars, removed, settled>>
  /\ UNCHANGED outside

\* remove_url(url)
RemoveUrl(url) ==
  /\ wpc = "idle" /\ rpc = "idle"
  /\ Cardinality({i \in DOMAIN id_to_metadata : id_to_metadata[i].deleted}) < MaxRemoved
  /\ url \in DOMAIN url_to_id
  /\ LET faiss_id == url_to_id[url]
     IN id_to_metadata' =
          IF faiss_id \in DOMAIN id_to_metadata
          THEN [id_to_metadata EXCEPT ![faiss_id].deleted = TRUE]
          ELSE id_to_metadata
  /\ url_to_id' = [u \in DOMAIN url_to_id \ {url} |-> url_to_id[u]]
  /\ removed' = removed \cup {url}
  /\ settled' = FALSE
  /\ UNCHANGED <<queue_file, index, next_id, filevars, restarts, writervars, readervars>>
  /\ UNCHANGED outside

\* the program is started again: ZeroIndex.__init__ and its _load_index
Restart ==
  /\ wpc = "idle" /\ rpc = "idle"
  /\ restarts < MaxRestarts
  /\ restarts' = restarts + 1
  /\ IF index_file.exists /\ metadata_file.exists
     THEN /\ index' = index_file.vectors
          /\ IF metadata_file.readable
             THEN /\ url_to_id' = metadata_file.metadata.url_to_id
                  /\ id_to_metadata' = metadata_file.metadata.id_to_metadata
                  /\ next_id' = metadata_file.metadata.next_id
             ELSE /\ url_to_id' = EmptyState.url_to_id
                  /\ id_to_metadata' = EmptyState.id_to_metadata
                  /\ next_id' = EmptyState.next_id
     ELSE /\ index' = EmptyState.index
          /\ url_to_id' = EmptyState.url_to_id
          /\ id_to_metadata' = EmptyState.id_to_metadata
          /\ next_id' = EmptyState.next_id
  /\ removed' = {}
  /\ settled' = FALSE
  /\ UNCHANGED <<queue_file, filevars, writervars, readervars>>
  /\ UNCHANGED outside

\* search(q, k), line 181: if self.index.ntotal == 0: return []
SearchBegin(q, k) ==
  /\ rpc = "idle" /\ (search_thread \/ wpc = "idle")
  /\ query' = q /\ top_k' = k
  /\ overlap' = IF wpc = "idle" THEN "none" ELSE "within"
  /\ rpc' = IF Len(index) = 0 THEN "return" ELSE "scan"
  /\ results' = <<>>
  /\ UNCHANGED <<queue_file, memvars, filevars, restarts, writervars, hits, removed,
                 settled>>
  /\ UNCHANGED outside

\* search, lines 187-193
SearchScan ==
  /\ rpc = "scan"
  /\ hits' = FaissSearch(index, query, top_k)
  /\ rpc' = "collect"
  /\ UNCHANGED <<queue_file, memvars, filevars, restarts, writervars, query, top_k,
                 results, overlap, removed, settled>>
  /\ UNCHANGED outside

\* search, lines 196-211
SearchCollect ==
  /\ rpc = "collect"
  /\ results' = Collect(hits, id_to_metadata)
  /\ rpc' = "return"
  /\ UNCHANGED <<queue_file, memvars, filevars, restarts, writervars, query, top_k, hits,
                 overlap, removed, settled>>
  /\ UNCHANGED outside

\* search has returned results to its caller: its locals are gone
SearchReturn ==
  /\ rpc = "return"
  /\ rpc' = "idle"
  /\ query' = "cat" /\ top_k' = 1 /\ hits' = <<>> /\ results' = <<>>
  /\ overlap' = "none"
  /\ UNCHANGED <<queue_file, memvars, filevars, restarts, writervars, removed, settled>>
  /\ UNCHANGED outside

IndexInit ==
  /\ SchedulerIdle /\ schema_in_path /\ fetch_fails = {} /\ discover_fails = {}
  /\ ProgressIdle /\ MainIdle /\ CrawlIdle /\ ZeroIdle

IndexNext ==
  \/ \E data \in Scraped : AddToQueue(data.url, data)
  \/ ClearQueue
  \/ ProcessQueue \/ RebuildIndex \/ ReadQueue \/ SkipRecord \/ AddVector
  \/ StoreMetadata \/ FinishQueue \/ WriterReturn
  \/ \E url \in Pages : RemoveUrl(url)
  \/ Restart
  \/ \E q \in Queries : \E k \in TopKs : SearchBegin(q, k)
  \/ SearchScan \/ SearchCollect \/ SearchReturn

IndexSpec == IndexInit /\ [][IndexNext]_vars

\* search called from a second thread while the index is built or rebuilt
RaceInit ==
  /\ SchedulerIdle /\ schema_in_path /\ fetch_fails = {} /\ discover_fails = {}
  /\ ProgressIdle /\ MainIdle /\ CrawlIdle /\ DomainIdle /\ LateIdle
  /\ queue_file = <<>>
  /\ index = <<>> /\ url_to_id = <<>> /\ id_to_metadata = <<>> /\ next_id = 0
  /\ index_file = [exists |-> FALSE, vectors |-> <<>>]
  /\ metadata_file = [exists |-> FALSE, readable |-> FALSE, metadata |-> EmptyState]
  /\ restarts = 0
  /\ wpc = "idle" /\ wop = "none" /\ queue_data = <<>> /\ qi = 1 /\ new_entries = 0
  /\ before = EmptyState
  /\ rpc = "idle" /\ query = "cat" /\ top_k = 1 /\ hits = <<>> /\ results = <<>>
  /\ overlap = "none"
  /\ removed = {}
  /\ settled = FALSE
  /\ search_thread = TRUE

RaceNext ==
  \/ \E data \in Scraped : AddToQueue(data.url, data)
  \/ ProcessQueue \/ RebuildIndex \/ ReadQueue \/ SkipRecord \/ AddVector
  \/ StoreMetadata \/ FinishQueue \/ WriterReturn
  \/ \E q \in Queries : \E k \in TopKs : SearchBegin(q, k)
  \/ SearchScan \/ SearchCollect \/ SearchReturn

RaceSpec == RaceInit /\ [][RaceNext]_vars

\* ---------------------------------------------------------------- Next
CallerStep(c) == BeginDomain(c) \/ InsertURL(c) \/ CommitDomain(c)

MainStep(p) ==
  \/ SelectRows(p) \/ CommitSelect(p) \/ ReturnRows(p) \/ WakeUp(p)
  \/ WorkerExit(p) \/ JoinQueue(p) \/ JoinThreads(p)

ThreadStep(p, t) ==
  GetRow(p, t) \/ ThreadExit(p, t) \/ FetchPage(p, t) \/ UpdateRow(p, t) \/ FinishRow(p, t)

ParentStep == StartScraping \/ SpawnProcess \/ JoinProcesses

Next ==
  \/ ParentStep
  \/ InsertCall
  \/ EndScraping
  \/ \E c \in Callers : CallerStep(c)
  \/ \E p \in Procs : MainStep(p)
  \/ \E p \in Procs : \E t \in Threads : ThreadStep(p, t)
  \/ \E p \in Procs : KeyboardInterrupt(p)
  \/ \E p \in Procs : Crash(p)

Spec == Init /\ [][Next]_vars

\* ------------------------------------------------------------- claims
\* a step of the scheduler itself: signals, kills, end_scraping and the outside
\* insert call come from the environment
SchedulerStep ==
  \/ ParentStep
  \/ \E c \in Callers : CallerStep(c)
  \/ \E p \in Procs : MainStep(p)
  \/ \E p \in Procs : \E t \in Threads : ThreadStep(p, t)

\* nothing of the scheduler can move: every call, process and thread is over or
\* waits (a scrape_worker going round its loop on an empty queue changes nothing)
Quiescent == ~ENABLED SchedulerStep

\* one indexing run of ZeroMain: start_scraping(self.current_domains) on the
\* scraping thread; end_scraping or a signal to a worker process may come at
\* any time; no kill and no outside insert call
RunInit == Init /\ schema_in_path

RunNext ==
  \/ ParentStep
  \/ EndScraping
  \/ \E c \in Callers : CallerStep(c)
  \/ \E p \in Procs : MainStep(p)
  \/ \E p \in Procs : \E t \in Threads : ThreadStep(p, t)
  \/ \E p \in Procs : KeyboardInterrupt(p)

\* every process and thread of the scheduler keeps being scheduled; nothing is
\* assumed of end_scraping and of signals
RunSpec == RunInit /\ [][RunNext]_vars /\ WF_vars(SchedulerStep)

\* no shutdown signal was raised and no worker process was interrupted or killed
Undisturbed ==
  /\ ~parent_event
  /\ \A p \in Procs : ~event[p] /\ pc[p] \notin {"dead", "interrupted"}

InCall(p) == pc[p] \in {"locked", "committed"}

\* row id is with worker process p: returned to it by a finished call, waiting
\* in its url_queue or being fetched by one of its threads, not yet written by p
InWork(p, id) ==
  /\ ThreadRuns(p)
  /\ \/ id \in Range(url_queue[p]) /\ ~event[p]
     \/ \E t \in Threads : trow[p][t] = id /\ tpc[p][t] \in {"scrape", "update"}

\* C1: two get_unscraped_rows calls of different worker processes that overlap
\* in time return row sets with no common id
C1_ConcurrentCallsDisjoint ==
  \A p \in Procs : \A q \in Procs :
    (p # q /\ InCall(p) /\ InCall(q)) => Range(rows[p]) \cap Range(rows[q]) = {}

\* C2: a row that is with one worker process, its snippet not yet written, is
\* neither returned to another worker process by a later call nor with another
\* worker process
C2_RowWithOneWorker ==
  \A p \in Procs : \A q \in Procs : \A r \in table :
    (p # q /\ r.snippet = NULL /\ InWork(p, r.id)) =>
      /\ ~(InCall(q) /\ r.id \in Range(rows[q]))
      /\ ~InWork(q, r.id)

\* C3: with no shutdown signal and no failing fetch, whenever the scheduler has
\* nothing left it can do, every committed row whose fetch succeeds has a
\* snippet (a worker that finished a batch would otherwise go on to claim it)
C3_FetchableRowsScraped ==
  (Undisturbed /\ Quiescent /\ fetch_fails = {}) =>
    \A r \in table : (r.xmin = 0 /\ r.url \notin fetch_fails) => r.snippet # NULL

\* C4: a row returned to a worker process that was killed before writing it does
\* not stay unclaimed once the scheduler has nothing left it can do: a surviving
\* worker has got it or it is written
Survivor(q) ==
  /\ pc[q] \in {"start", "loop", "locked", "committed", "sleep", "join_queue", "join_threads"}
  /\ ~event[q]
C4_CrashedRowReclaimed ==
  \A p \in Procs : \A r \in table :
    ( /\ Quiescent
      /\ pc[p] = "dead" /\ r.id \in Range(rows[p]) /\ r.snippet = NULL
      /\ \E q \in Procs : Survivor(q) )
    => \E q \in Procs : Survivor(q) /\ r.id \in Range(rows[q])

\* C5: a row whose scrape failed keeps snippet NULL and can be claimed again:
\* the scheduler never comes to rest while such a row is in the table
C5_FailedRowClaimedAgain ==
  \A p \in Procs : \A t \in Threads : \A r \in table :
    /\ (tpc[p][t] = "finally" /\ trow[p][t] = r.id /\ ~tsuccess[p][t]) => r.snippet = NULL
    /\ ( /\ Undisturbed
         /\ r.id \in Range(rows[p]) /\ pc[p] = "join_threads"
         /\ r.url \in fetch_fails ) => ~Quiescent

\* C6: with permanently failing rows in the table and no shutdown signal, every
\* committed row whose fetch succeeds has been claimed and scraped by the time
\* the scheduler has nothing left it can do
C6_FailingRowsDoNotBlockOthers ==
  ( /\ Undisturbed /\ Quiescent
    /\ \E f \in table : f.xmin = 0 /\ f.url \in fetch_fails ) =>
    \A r \in table : (r.xmin = 0 /\ r.url \notin fetch_fails) =>
      (r.snippet # NULL /\ \E p \in Procs : r.id \in Range(rows[p]))

NoDuplicateURL == \A r \in table : \A n \in table : r.url = n.url => r = n
InsertedURL(c) == clist[c][curl[c]]
C8_InsertIdempotent ==
  /\ []NoDuplicateURL
  /\ [][\A c \in Callers :
          ( /\ cpc[c] = "insert" /\ curl'[c] = curl[c] + 1
            /\ \E r \in table : r.url = InsertedURL(c) ) => table' = table
       ]_vars

\* a caller has executed the INSERT of a url whose row another transaction had
\* committed, and that row has its snippet
C8_Witness ==
  \E c \in Callers : \E r \in table :
    /\ cpc[c] \in {"insert", "commit"} /\ curl[c] > 1
    /\ ctx[c] = "ok" /\ RelationVisible(c)
    /\ r.url = clist[c][curl[c] - 1] /\ r.xmin = 0 /\ r.snippet # NULL
    /\ r.crawl_delay # cdelay[c]

\* C9: once end_scraping has set shutdown_event, a worker process whose batch
\* iteration has ended does not enter get_unscraped_rows again
C9_NoClaimAfterShutdown ==
  [][\A p \in Procs : (parent_event /\ pc[p] = "loop") => pc'[p] # "locked"]_vars

\* C10: after end_scraping has set shutdown_event, with no worker process
\* interrupted or killed, the scheduler comes to rest only with every thread and
\* worker process ended and start_scraping returned
C10_ShutdownTerminates ==
  ( /\ parent_event /\ Quiescent
    /\ \A p \in Procs : pc[p] \notin {"dead", "interrupted"} ) =>
    /\ ppc = "returned"
    /\ \A p \in Procs : pc[p] = "done"
    /\ \A p \in Procs : \A t \in Threads : tpc[p][t] \in {"none", "done"}

\* the rows taken from the url_queues so far, and the threads that hold a row
\* they have not counted yet
RECURSIVE TakenBy(_)
TakenBy(P) ==
  IF P = {} THEN 0
  ELSE LET p == Min(P) IN Len(rows[p]) - Len(url_queue[p]) + TakenBy(P \ {p})
Taken == TakenBy(Procs)
Uncounted ==
  {w \in Procs \X Threads :
     tpc[w[1]][w[2]] \in {"scrape", "update", "finally", "lock", "get", "set"}}

\* C11: processed_count never decreases, and at every moment it is the number
\* of rows taken from the queues less the rows whose finally block has not
\* counted yet, whether their scrape succeeded or failed
C11_CountsEveryRow ==
  /\ [](processed_count = Taken - Cardinality(Uncounted))
  /\ [][processed_count' >= processed_count]_vars

\* a thread of one process is inside "processed_count.value += 1" for a row it
\* scraped while a thread of another process waits for the lock with a row
\* whose scrape failed
C11_Witness ==
  \E p \in Procs : \E q \in Procs : \E t \in Threads : \E u \in Threads :
    /\ p # q
    /\ progress_lock = <<p, t>> /\ tpc[p][t] = "set" /\ tsuccess[p][t]
    /\ tpc[q][u] = "lock" /\ ~tsuccess[q][u]

\* scaled stand-in for the 100 parts of "1% of progress"
ProgressParts == 2
\* the number of processed rows that make one part of the run's total_urls
ReportStep == total_urls[1] \div ProgressParts

\* a step that enters progress_callback
CallbackCalled(p, t) == tpc[p][t] = "callback" /\ tpc'[p][t] = "in_callback"

\* C12: a progress_callback call that reports a higher count than the call
\* before it reports a count at least one part of the total (ReportStep rows)
\* higher
C12_CallbackThrottled ==
  [][\A p \in Procs : \A t \in Threads :
       (CallbackCalled(p, t) /\ cb_last > 0 /\ current_count[p][t] > cb_last) =>
         current_count[p][t] - cb_last >= ReportStep
    ]_vars

\* C13: at most one thread is inside progress_callback at a time, and each call
\* is given a count not below the count of the call before it
C13_CallbacksSerialized ==
  /\ [](Cardinality(cb_active) <= 1)
  /\ [][cb_last' >= cb_last]_vars

\* C14: handle_index calls reconstruct_index only after its scraping thread has
\* set scraping_finished_event, and not when the state was set away from
\* "INDEX" since the thread was started
C14_IndexAfterScraping ==
  [][(mpc = "reconstruct" /\ mpc' = "loop") =>
       (scraping_finished_event /\ ~left_index)]_vars

\* C15: when get_URL_list has raised for a domain of the list, the urls of
\* every later domain of the list are in the table once insert_urls_into_db
\* has returned (the role's search_path holding the schema, so that no INSERT
\* fails)
C15_LaterDomainsInserted ==
  \A c \in Callers : \A i \in DOMAIN DomainsOf(c) : \A j \in DOMAIN DomainsOf(c) :
    ( /\ schema_in_path /\ cpc[c] = "done"
      /\ j < i /\ DomainsOf(c)[j] \in discover_fails /\ DomainsOf(c)[i] \notin discover_fails )
    => \A u \in Range(DomainURLs(DomainsOf(c)[i])) : \E r \in table : r.url = u

\* C16: crawl_domain never has a url that robots.txt disallows among the urls
\* it returns
C16_RobotsRespected ==
  /\ \A u \in Range(discovered_urls) : ~RobotsDisallows(u)
  /\ \A d \in Range(domains) : \A u \in Range(discovered_links[d]) : ~RobotsDisallows(u)

\* C17: the GET of a page in crawl_domain's while loop is sent at least the
\* domain's crawl delay after the GET before it of the same crawl, whatever
\* that one's outcome
C17_CrawlDelayKept ==
  [][(kpc = "fetch" /\ nfetch' > nfetch /\ nfetch > 0) =>
       now - last_fetch >= robots_delay]_vars

\* a url the discoverer has to filter out
Unwanted(url) ==
  \/ Scheme(url) \notin {"http", "https"}
  \/ PathOf(url) # <<>> /\ Last(PathOf(url)) \in skip_extensions
  \/ HasSkipPattern(url)

\* C18: no url enqueued from a page's links and no url returned has another
\* scheme than http(s), a path ending in a skipped extension or a skipped path
\* pattern
C18_UnwantedFiltered ==
  /\ \A e \in Range(queue) : ~Unwanted(e[1])
  /\ \A u \in Range(discovered_urls) : ~Unwanted(u)

\* C19: the iteration of a page that does not answer 200 (or whose GET raises)
\* adds nothing to discovered_urls or to the queue and ends at the head of the
\* while loop; no url in discovered_urls has another answer than 200
C19_FailedPageSkipped ==
  /\ [](\A u \in Range(discovered_urls) : status[u] = "200")
  /\ [][(kpc = "fetch" /\ status[current[1]] # "200" /\ nfetch' > nfetch) =>
          (discovered_urls' = discovered_urls /\ queue' = queue /\ kpc' = "loop")]_vars

\* a page did not answer 200 and a url queued besides it was crawled after it
C19_Witness ==
  /\ status[PageA] # "200" /\ PageA \in visited /\ PageA # current[1]
  /\ kpc = "links" /\ current[1] \in {PagePrivate, PagePdfQuery}
  /\ current[1] \in Range(discovered_urls)

Unreachable(d) == \A i \in DOMAIN start_urls(d) : status[start_urls(d)[i]] # "200"

\* C20: crawl_domain returns the empty list for a domain none of whose start
\* urls answers 200, and when scan_all_domains has saved the links, every
\* domain with a start url that answers 200 has its links
C20_UnreachableDomainSkipped ==
  /\ (kpc = "return" /\ Unreachable(Domain)) => discovered_urls = <<>>
  /\ links_saved =>
       \A d \in Range(domains) : ~Unreachable(d) => discovered_links[d] # <<>>

\* the scan has saved the links of d1 after d0 was unreachable, its first start
\* url raising
C20_Witness ==
  /\ links_saved
  /\ Unreachable("d0") /\ status[RootUrl("d0")] = "error"
  /\ discovered_links["d0"] = <<>> /\ discovered_links["d1"] # <<>>

\* the hostname of a text: its scheme ("x://"), a leading "www." and its path
\* taken off
Hostname(text) ==
  LET noscheme ==
        IF Len(text) >= 1 /\ text[1] \in {"http://", "https://"} THEN Tail(text)
        ELSE IF Len(text) >= 3 /\ text[2] = "/" /\ text[3] = "/"
             THEN SubSeq(text, 4, Len(text))
        ELSE text
      nowww == IF Len(noscheme) >= 1 /\ noscheme[1] = "www." THEN Tail(noscheme)
               ELSE noscheme
  IN SplitFirst(nowww)

\* text differs from a managed domain by scheme, www. prefix or path only
AlreadyManaged(text) == \E i \in 1..Len(domains) : Hostname(domains[i]) = Hostname(text)

\* C21: from a duplicate-free list, add_domain and remove_domain never leave a
\* hostname in the managed list twice, and add_domain of a text that differs
\* from a managed domain only by scheme, www. prefix or path returns False and
\* leaves the list unchanged
C21_DomainsDeduplicated ==
  /\ [](\A i, j \in 1..Len(domains) :
          Hostname(domains[i]) = Hostname(domains[j]) => i = j)
  /\ [][\A text \in DomainTexts :
          (AddDomain(text) /\ AlreadyManaged(text))
            => (add_ret' = "False" /\ domains' = domains)]_vars

\* search has its results, and ran with no process_queue or rebuild_index
\* running beside it
SearchAlone == rpc = "return" /\ overlap = "none"

\* C22: after remove_url(A) returned True and while A is not indexed again,
\* neither search nor get_urls_by_similarity returns A
C22_RemovedNeverReturned ==
  SearchAlone =>
    /\ \A i \in 1..Len(results) : results[i].url \notin removed
    /\ \A i \in 1..Len(UrlsOf(results)) : UrlsOf(results)[i] \notin removed

\* rebuild_index has just completed
RebuildDone == wpc = "done" /\ wop = "rebuild"

\* the index entries of a url
EntriesOf(url) == {i \in DOMAIN id_to_metadata : id_to_metadata[i].url = url}

\* C23: after rebuild_index the index holds no tombstoned entry and exactly one
\* entry for every record of queue.json, blank ones included, with ids 0..n-1
\* and next_id = n = number of vectors
C23_RebuildCoversStore ==
  RebuildDone =>
    LET n == Len(queue_file)
    IN /\ \A i \in DOMAIN id_to_metadata : ~id_to_metadata[i].deleted
       /\ \A r \in 1..n : Cardinality(EntriesOf(queue_file[r].url)) = 1
       /\ DOMAIN id_to_metadata = 0..(n - 1)
       /\ next_id = n
       /\ Len(index) = n

\* process_queue run on a fresh, empty index over the queue.json of now
FreshIndex == ProcessFrom(EmptyState, queue_file, 1)

\* C24: the state rebuild_index reaches, from whatever the index held, is the
\* state process_queue reaches on a fresh empty index over the same queue.json:
\* same vectors, url_to_id, id_to_metadata and next_id, same result of every
\* search
C24_RebuildEqualsFresh ==
  RebuildDone =>
    /\ Fields = FreshIndex
    /\ \A q \in Queries : \A k \in TopKs : SearchOf(Fields, q, k) = SearchOf(FreshIndex, q, k)

\* a rebuild of an index that held three vectors, one of them tombstoned, into
\* one of two entries
C24_Witness ==
  /\ RebuildDone
  /\ Len(before.index) = 3
  /\ \E i \in DOMAIN before.id_to_metadata : before.id_to_metadata[i].deleted
  /\ Len(index) = 2

\* the two files are there and the metadata file can be unpickled
LoadablePair == index_file.exists /\ metadata_file.exists /\ metadata_file.readable

\* C25: when _load_index cannot load a matched pair of files, the instance
\* starts with an empty index and empty metadata
C25_FailedLoadIsEmpty ==
  [][(restarts' = restarts + 1 /\ ~LoadablePair)
       => (index' = <<>> /\ url_to_id' = <<>> /\ id_to_metadata' = <<>> /\ next_id' = 0)]_vars

\* C26: between the calls next_id is the number of vectors, so that the id a
\* newly indexed url gets is the position of its vector, and that id was given
\* to no url before
C26_NextIdIsVectorCount ==
  /\ [](wpc = "idle" => next_id = Len(index))
  /\ [][next_id' = next_id + 1
         => (next_id = Len(index') - 1 /\ next_id \notin DOMAIN id_to_metadata)]_vars

\* the entries of a url that are not tombstoned
LiveEntriesOf(url) == {i \in EntriesOf(url) : ~id_to_metadata[i].deleted}

\* C27: a url never has more than one live index entry; process_queue run
\* again, with nothing done since its last run, adds no vector; a url indexed
\* again after remove_url gets an id no entry has, and its tombstoned entry
\* stays as it is
C27_OneLiveEntryPerUrl ==
  /\ [](\A url \in Pages : Cardinality(LiveEntriesOf(url)) <= 1)
  /\ [][(wpc = "loop" /\ wop = "process" /\ Len(index') > Len(index)) => ~settled]_vars
  /\ [][(wpc = "store" /\ next_id' = next_id + 1 /\ queue_data[qi].url \in removed)
         => /\ next_id \notin DOMAIN id_to_metadata
            /\ \A i \in EntriesOf(queue_data[qi].url) :
                 id_to_metadata[i].deleted /\ id_to_metadata'[i] = id_to_metadata[i]]_vars

\* A was removed and indexed again, and process_queue, called again with nothing
\* done since, has gone through both records of queue.json
C27_Witness ==
  /\ wpc = "loop" /\ wop = "process" /\ settled
  /\ Len(queue_data) = 2 /\ qi > Len(queue_data)
  /\ Cardinality(EntriesOf("A")) = 2
  /\ Cardinality(LiveEntriesOf("A")) = 1
  /\ Len(index) = 3

\* process_queue has just completed
ProcessDone == wpc = "done" /\ wop = "process"

\* C28: when process_queue completes, every live index entry is of a url that
\* queue.json holds, with the title and snippet queue.json has for it
C28_IndexMatchesQueue ==
  ProcessDone =>
    \A i \in DOMAIN id_to_metadata :
      ~id_to_metadata[i].deleted =>
        \E r \in 1..Len(queue_file) :
          /\ queue_file[r].url = id_to_metadata[i].url
          /\ queue_file[r].title = id_to_metadata[i].title
          /\ queue_file[r].snippet = id_to_metadata[i].snippet

\* C29: every result search returns is of a slot that has an entry in
\* id_to_metadata and carries that entry's url, title and snippet, and the
\* results are in descending order of score
C29_OnlyMappedSlots ==
  SearchAlone =>
    /\ \A i \in 1..Len(results) :
         /\ hits[i][2] \in DOMAIN id_to_metadata
         /\ results[i].url = id_to_metadata[hits[i][2]].url
         /\ results[i].title = id_to_metadata[hits[i][2]].title
         /\ results[i].snippet = id_to_metadata[hits[i][2]].snippet
    /\ \A i, j \in 1..Len(results) :
         i < j => results[i].similarity_score >= results[j].similarity_score

\* the fields the running process_queue or rebuild_index ends with
After ==
  IF wop = "rebuild" THEN ProcessFrom(EmptyState, queue_file, 1)
  ELSE ProcessFrom(before, queue_file, 1)

\* C30: a search that runs while rebuild_index or process_queue is running
\* returns the complete result of the index as it was before that call, or of
\* the index as it is after it
C30_SearchSeesWholeIndex ==
  [][(rpc # "return" /\ rpc' = "return" /\ overlap' = "within")
       => results' \in {SearchOf(before, query', top_k'), SearchOf(After, query', top_k')}]_vars

\* C31: when AI mode is on and generate_report raises, the url list of the
\* semantic search is shown together with an error note
C31_ReportFailureKeepsUrls ==
  search_outcome = "report_failed" => {"urls", "error"} \subseteq shown

\* C34: a shutdown requested with request_shutdown is eventually handled:
\* handle_save_shutdown runs and running becomes False, also when the request
\* arrives while handle_index waits for the scraping thread
C34_ShutdownHandled == (state = "SAVE_SHUTDOWN") ~> ~running

\* C35: an indexing run comes to reconstruct_index without a shutdown signal
\* or an outside change: start_scraping returns, and so sets
\* scraping_finished_event, once every discovered url has been scraped
\* (a run whose domains gave no url at all is left aside)
C35_IndexingRunCompletes ==
  <>(~Undisturbed \/ ppc = "returned" \/ (cpc[1] = "done" /\ table = {}))

\* what _load_index would read from the two files as they are now
Loaded ==
  IF index_file.exists /\ metadata_file.exists
  THEN IF metadata_file.readable
       THEN [metadata_file.metadata EXCEPT !.index = index_file.vectors]
       ELSE [EmptyState EXCEPT !.index = index_file.vectors]
  ELSE EmptyState

\* C40: after process_queue, remove_url and rebuild_index have returned, the
\* files hold the in-memory state (every save having gone through): a restart
\* restores the same vectors, url_to_id, id_to_metadata and next_id
C40_DiskHoldsIndex ==
  (wpc = "idle" /\ (metadata_file.exists => metadata_file.readable)) => Loaded = Fields

\* the start url that answered 200
StartUrl == start_urls(Domain)[start_i]

\* the urls a page links to, fragments dropped
LinkedFrom(page) == {CleanUrl(h) : h \in hrefs[page]}

\* the urls at most k link hops from the start url
RECURSIVE Within(_)
Within(k) ==
  IF k = 0 THEN {StartUrl}
  ELSE Within(k - 1) \cup UNION {LinkedFrom(u) : u \in Within(k - 1)}

NoRepeat(s) == \A i, j \in DOMAIN s : i # j => s[i] # s[j]

\* C33: crawl_domain returns no url twice, fetches each url at most once inside
\* the crawl loop, and neither fetches nor returns a url more than max_depth
\* link hops from the start url, cycles in the link graph included
C33_CrawlBounded ==
  kpc \in {"loop", "fetch", "links", "return"} =>
    /\ NoRepeat(discovered_urls)
    /\ NoRepeat(fetched)
    /\ Range(fetched) \subseteq Within(max_depth)
    /\ Range(discovered_urls) \subseteq Range(fetched)

\* a crawl over a cyclic link graph has returned three pages and left alone a
\* page that is three hops away
C33_Witness ==
  /\ kpc = "return"
  /\ Len(discovered_urls) = 3
  /\ RootUrl("d1") \in LinkedFrom(PageA) /\ PageA \in LinkedFrom(PageB)
  /\ PageC \in LinkedFrom(PageB) /\ PageC \notin Within(max_depth)
  /\ PageC \notin Range(fetched)

\* ------------------------------------------- ZeroCompiler._chunk_content
\* what the models above consist of, left alone by the steps below
early ==
  <<schedvars, progressvars, indexvars, crawlvars, domainvars, faissvars, guivars, fetched>>

EarlyIdle ==
  /\ SchedulerIdle /\ schema_in_path /\ fetch_fails = {} /\ discover_fails = {}
  /\ ProgressIdle /\ MainIdle /\ CrawlIdle /\ DomainIdle /\ FaissIdle /\ GuiIdle
  /\ fetched = <<>>

\* how many pages the content dict holds at most
MaxPages == 3
\* scaled stand-in for max_tokens_per_chunk=3000
max_tokens_per_chunk == 3

\* a content dict: pages with distinct urls, each with the token count
\* _count_tokens gives for its page_text
ChunkInputs ==
  {c \in UNION {[1..n -> [url : 1..MaxPages, tokens : 1..(max_tokens_per_chunk + 1)]] :
                 n \in 0..MaxPages} :
     \A i, j \in DOMAIN c : i # j => c[i].url # c[j].url}

\* the chunk is closed whenever the page does not fit, also when it is empty
Full_EvenEmpty(chunk, token_count) ==
  chunk.token_count + token_count > max_tokens_per_chunk

\* current_chunk['token_count'] + token_count > self.max_tokens_per_chunk and
\* current_chunk['urls']
Full(chunk, token_count) ==
  chunk.token_count + token_count > max_tokens_per_chunk /\ chunk.urls # <<>>

\* current_chunk['urls'].append(url); current_chunk['token_count'] += token_count
WithPage(chunk, page) ==
  [chunk EXCEPT !.urls = Append(@, page.url), !.token_count = @ + page.tokens]

\* one iteration of "for url, page_data in content.items()"
ChunkPage ==
  /\ zpc = "loop" /\ page_i <= Len(content)
  /\ LET page == content[page_i]
     IN IF Full(current_chunk, page.tokens)
          THEN /\ chunks' = Append(chunks, current_chunk)
               /\ chunk_id' = chunk_id + 1
               /\ current_chunk' = WithPage(NewChunk(chunk_id + 1), page)
          ELSE /\ current_chunk' = WithPage(current_chunk, page)
               /\ UNCHANGED <<chunks, chunk_id>>
  /\ page_i' = page_i + 1
  /\ UNCHANGED <<content, zpc>>
  /\ UNCHANGED <<early, storevars, savevars, scrapevars>>

\* after the loop: "if current_chunk['urls']: chunks.append(current_chunk)";
\* return chunks
ChunkReturn ==
  /\ zpc = "loop" /\ page_i > Len(content)
  /\ chunks' = IF current_chunk.urls # <<>> THEN Append(chunks, current_chunk) ELSE chunks
  /\ zpc' = "returned"
  /\ UNCHANGED <<content, page_i, current_chunk, chunk_id>>
  /\ UNCHANGED <<early, storevars, savevars, scrapevars>>

ChunkInit ==
  /\ EarlyIdle /\ StoreIdle /\ SaveIdle /\ ScrapeIdle
  /\ ChunkStart
  /\ content \in ChunkInputs

ChunkNext == ChunkPage \/ ChunkReturn

ChunkSpec == ChunkInit /\ [][ChunkNext]_vars

\* the urls of a list of chunks, one after the other
RECURSIVE UrlsIn(_)
UrlsIn(cs) == IF cs = <<>> THEN <<>> ELSE Head(cs).urls \o UrlsIn(Tail(cs))

\* the token counts of the pages with these urls, summed
RECURSIVE TokensOf(_)
TokensOf(us) ==
  IF us = <<>> THEN 0
  ELSE (CHOOSE page \in Range(content) : page.url = Head(us)).tokens + TokensOf(Tail(us))

\* C38: _chunk_content partitions the pages: the urls of the chunks, in order,
\* are the urls of the input in order (so each url is in exactly one chunk), no
\* chunk is empty, the chunk_id values are 0, 1, 2, ..., and a chunk's
\* token_count exceeds max_tokens_per_chunk only when it holds a single page
C38_ChunksPartitionPages ==
  zpc = "returned" =>
    /\ UrlsIn(chunks) = [i \in DOMAIN content |-> content[i].url]
    /\ \A i \in DOMAIN chunks :
         /\ chunks[i].urls # <<>>
         /\ chunks[i].chunk_id = i - 1
         /\ chunks[i].token_count = TokensOf(chunks[i].urls)
         /\ chunks[i].token_count > max_tokens_per_chunk => Len(chunks[i].urls) = 1

\* three pages came back as an oversized chunk of one page followed by a
\* chunk of two pages
C38_Witness ==
  /\ zpc = "returned"
  /\ Len(content) = 3 /\ Len(chunks) = 2
  /\ chunks[1].token_count > max_tokens_per_chunk
  /\ Len(chunks[2].urls) = 2

\* ------------------------------ ZeroScraper: add_to_queue, clear_queue
\* what the steps of a caller leave alone
aloof == <<early, chunkvars, scrapevars>>

\* f is closed: the buffered text goes to offset 0 of queue.json.  It replaces
\* what the file holds unless another writer has put a longer text there since
\* this writer truncated it, whose tail then stays behind the new text
Flushed(file, urls) ==
  IF file.kind = "json" /\ Cardinality(file.urls) > Cardinality(urls)
    THEN [kind |-> "garbled", urls |-> {}]
  ELSE IF file.kind = "garbled" THEN file
  ELSE Json(urls)

\* add_to_queue(url, scraped_data) with data: "with self.queue_lock:
\* self.queue_data[url] = {...}", then _save_queue()
BeginAdd(c, url) ==
  /\ spc[c] = "idle"
  /\ self_queue_data' = self_queue_data \cup {url}
  /\ spc' = [spc EXCEPT ![c] = "open"]
  /\ UNCHANGED <<queue_json, lock_path, inodes_made, lock_holder, lock_fd, dumped>>
  /\ UNCHANGED aloof

\* clear_queue(): "with self.queue_lock: self.queue_data = {}", then
\* _save_queue()
BeginClear(c) ==
  /\ spc[c] = "idle"
  /\ self_queue_data' = {}
  /\ spc' = [spc EXCEPT ![c] = "open"]
  /\ UNCHANGED <<queue_json, lock_path, inodes_made, lock_holder, lock_fd, dumped>>
  /\ UNCHANGED aloof

\* lock_fd = os.open(lock_file, os.O_CREAT | os.O_RDWR): the file the path
\* names now, or a new one when the path names none
OpenLockFile(c) ==
  /\ spc[c] = "open"
  /\ IF lock_path = 0
       THEN /\ inodes_made' = inodes_made + 1
            /\ lock_path' = inodes_made + 1
            /\ lock_fd' = [lock_fd EXCEPT ![c] = inodes_made + 1]
       ELSE /\ lock_fd' = [lock_fd EXCEPT ![c] = lock_path]
            /\ UNCHANGED <<inodes_made, lock_path>>
  /\ spc' = [spc EXCEPT ![c] = "flock"]
  /\ UNCHANGED <<self_queue_data, queue_json, lock_holder, dumped>>
  /\ UNCHANGED aloof

\* fcntl.flock(lock_fd, fcntl.LOCK_EX) returns: no other descriptor holds the
\* lock of that file
Flock(c) ==
  /\ spc[c] = "flock"
  /\ lock_holder[lock_fd[c]] = 0
  /\ lock_holder' = [lock_holder EXCEPT ![lock_fd[c]] = c]
  /\ spc' = [spc EXCEPT ![c] = "write"]
  /\ UNCHANGED <<self_queue_data, queue_json, lock_path, inodes_made, lock_fd, dumped>>
  /\ UNCHANGED aloof

\* open(self.queue_file, 'w', encoding='utf-8'): the file is truncated
OpenQueueFile(c) ==
  /\ spc[c] = "write"
  /\ queue_json' = [kind |-> "empty", urls |-> {}]
  /\ spc' = [spc EXCEPT ![c] = "dump"]
  /\ UNCHANGED <<self_queue_data, lock_path, inodes_made, lock_holder, lock_fd, dumped>>
  /\ UNCHANGED aloof

\* with self.queue_lock: json.dump(self.queue_data, f, ...)
JsonDump(c) ==
  /\ spc[c] = "dump"
  /\ dumped' = [dumped EXCEPT ![c] = self_queue_data]
  /\ spc' = [spc EXCEPT ![c] = "close"]
  /\ UNCHANGED <<self_queue_data, queue_json, lock_path, inodes_made, lock_holder, lock_fd>>
  /\ UNCHANGED aloof

\* the end of "with open(...) as f": f is flushed and closed
CloseQueueFile(c) ==
  /\ spc[c] = "close"
  /\ queue_json' = Flushed(queue_json, dumped[c])
  /\ dumped' = [dumped EXCEPT ![c] = {}]
  /\ spc' = [spc EXCEPT ![c] = "unlock"]
  /\ UNCHANGED <<self_queue_data, lock_path, inodes_made, lock_holder, lock_fd>>
  /\ UNCHANGED aloof

\* finally: fcntl.flock(lock_fd, fcntl.LOCK_UN); os.close(lock_fd)
Unlock(c) ==
  /\ spc[c] = "unlock"
  /\ lock_holder' = [lock_holder EXCEPT ![lock_fd[c]] = 0]
  /\ lock_fd' = [lock_fd EXCEPT ![c] = 0]
  /\ spc' = [spc EXCEPT ![c] = "unlink"]
  /\ UNCHANGED <<self_queue_data, queue_json, lock_path, inodes_made, dumped>>
  /\ UNCHANGED aloof

\* if os.path.exists(lock_file): os.unlink(lock_file); the call returns
UnlinkLockFile(c) ==
  /\ spc[c] = "unlink"
  /\ lock_path' = 0
  /\ spc' = [spc EXCEPT ![c] = "returned"]
  /\ UNCHANGED <<self_queue_data, queue_json, inodes_made, lock_holder, lock_fd, dumped>>
  /\ UNCHANGED aloof

SaveInit == EarlyIdle /\ ModelIdle

SaveNext ==
  \E c \in Savers :
    \/ \E url \in ScrapeUrls : BeginAdd(c, url)
    \/ BeginClear(c)
    \/ OpenLockFile(c) \/ Flock(c) \/ OpenQueueFile(c) \/ JsonDump(c)
    \/ CloseQueueFile(c) \/ Unlock(c) \/ UnlinkLockFile(c)

SaveSpec == SaveInit /\ [][SaveNext]_vars

\* between taking and releasing the exclusive flock
InWriteSection(c) == spc[c] \in {"write", "dump", "close", "unlock"}

\* C32: at most one caller is inside the write section of _save_queue at any
\* time, with three callers that each unlink the lock file after releasing it
C32_OneWriterAtATime == Cardinality({c \in Savers : InWriteSection(c)}) <= 1

\* C39: once every add_to_queue and clear_queue call has returned, queue.json
\* holds exactly the in-memory queue_data
C39_FileHoldsQueue ==
  ( /\ \A c \in Savers : spc[c] \in {"idle", "returned"}
    /\ \E c \in Savers : spc[c] = "returned" ) => queue_json = Json(self_queue_data)

\* ------------------------------------------- ZeroScraper.scrape_urls
\* how many urls the list given to scrape_urls names at most
MaxInput == 3

\* the lists scrape_urls is given: a url may be named more than once, as
\* scrape_from_domain_list puts the lists of all domains one after the other
ScrapeInputs == UNION {[1..n -> ScrapeUrls] : n \in 0..MaxInput}

\* new_urls = [url for url in urls if url not in self.queue_data]
NewUrls(urls) == SelectSeq(urls, LAMBDA url : url \notin self_queue_data)

\* scrape_urls(urls) up to url_queue.join(): with no new url it returns at
\* once; else the urls go to url_queue and min(max_workers, len(new_urls))
\* worker threads are started
ScrapeUrlsCall(urls) ==
  /\ upc = "idle"
  /\ scrape_input' = urls
  /\ IF NewUrls(urls) = <<>>
       THEN /\ upc' = "returned"
            /\ UNCHANGED <<task_queue, unfinished_tasks, wkpc>>
       ELSE /\ task_queue' = NewUrls(urls)
            /\ unfinished_tasks' = Len(NewUrls(urls))
            /\ wkpc' = [w \in Workers |-> IF w <= Len(NewUrls(urls)) THEN "check" ELSE "none"]
            /\ upc' = "join"
  /\ UNCHANGED <<wkurl, scrape_count>>
  /\ UNCHANGED <<early, chunkvars, storevars, savevars>>

\* worker: while not url_queue.empty()
WorkerCheck(w) ==
  /\ wkpc[w] = "check"
  /\ wkpc' = [wkpc EXCEPT ![w] = IF task_queue = <<>> THEN "ended" ELSE "get"]
  /\ UNCHANGED <<scrape_input, task_queue, unfinished_tasks, upc, wkurl, scrape_count>>
  /\ UNCHANGED <<early, chunkvars, storevars, savevars>>

\* url = url_queue.get_nowait(): a url, or Queue.Empty when another worker
\* has taken the last one since the check ("except Queue.Empty: break", which
\* leaves through the finally block)
WorkerGet(w) ==
  /\ wkpc[w] = "get"
  /\ IF task_queue # <<>>
       THEN /\ wkurl' = [wkurl EXCEPT ![w] = Head(task_queue)]
            /\ task_queue' = Tail(task_queue)
            /\ wkpc' = [wkpc EXCEPT ![w] = "scrape"]
       ELSE /\ wkpc' = [wkpc EXCEPT ![w] = "break"]
            /\ UNCHANGED <<wkurl, task_queue>>
  /\ UNCHANGED <<scrape_input, unfinished_tasks, upc, scrape_count>>
  /\ UNCHANGED <<early, chunkvars, storevars, savevars>>

\* scraped_data = self.scrape_page(url); if scraped_data:
\* self.add_to_queue(url, scraped_data) (entry stored and saved); time.sleep
ScrapePage(w) ==
  /\ wkpc[w] = "scrape"
  /\ scrape_count' = [scrape_count EXCEPT ![wkurl[w]] = @ + 1]
  /\ \E scraped_data \in BOOLEAN :
       IF scraped_data
         THEN /\ self_queue_data' = self_queue_data \cup {wkurl[w]}
              /\ queue_json' = Json(self_queue_data \cup {wkurl[w]})
         ELSE UNCHANGED storevars
  /\ wkpc' = [wkpc EXCEPT ![w] = "finally"]
  /\ UNCHANGED <<scrape_input, task_queue, unfinished_tasks, upc, wkurl>>
  /\ UNCHANGED <<early, chunkvars, savevars>>

\* finally: url_queue.task_done(), on the way round the loop and on the way
\* out of it; with no unfinished task left it raises ValueError and the
\* thread ends
QueueTaskDone(w) ==
  /\ wkpc[w] \in {"finally", "break"}
  /\ IF unfinished_tasks = 0
       THEN /\ wkpc' = [wkpc EXCEPT ![w] = "ended"]
            /\ UNCHANGED unfinished_tasks
       ELSE /\ unfinished_tasks' = unfinished_tasks - 1
            /\ wkpc' = [wkpc EXCEPT ![w] = IF wkpc[w] = "break" THEN "ended" ELSE "check"]
  /\ wkurl' = [wkurl EXCEPT ![w] = "none"]
  /\ UNCHANGED <<scrape_input, task_queue, upc, scrape_count>>
  /\ UNCHANGED <<early, chunkvars, storevars, savevars>>

\* url_queue.join() returns: unfinished_tasks is 0; scrape_urls returns
QueueJoin ==
  /\ upc = "join"
  /\ unfinished_tasks = 0
  /\ upc' = "returned"
  /\ UNCHANGED <<scrape_input, task_queue, unfinished_tasks, wkpc, wkurl, scrape_count>>
  /\ UNCHANGED <<early, chunkvars, storevars, savevars>>

\* a ZeroScraper whose queue.json held nothing or the entry of one url
ScrapeInit ==
  /\ EarlyIdle /\ content = <<>> /\ ChunkStart /\ SaveIdle /\ ScrapeIdle
  /\ self_queue_data \in {{}, {"u1"}}
  /\ queue_json = Json(self_queue_data)

ScrapeNext ==
  \/ \E urls \in ScrapeInputs : ScrapeUrlsCall(urls)
  \/ \E w \in Workers :
       WorkerCheck(w) \/ WorkerGet(w) \/ ScrapePage(w) \/ QueueTaskDone(w)
  \/ QueueJoin

ScrapeSpec == ScrapeInit /\ [][ScrapeNext]_vars

\* C36: when url_queue.join() has returned, no url is left in the queue and no
\* worker thread is still handling one
C36_JoinWaitsForWorkers ==
  upc = "returned" => task_queue = <<>> /\ \A w \in Workers : wkpc[w] # "scrape"

\* every worker thread has ended and scrape_urls has returned
AllEnded == upc = "returned" /\ \A w \in Workers : wkpc[w] \in {"none", "ended"}

\* C37: scrape_urls scrapes every url of its input that is not yet in
\* queue_data exactly once and never one that is in queue_data, also when the
\* input names a url more than once
C37_EachNewUrlOnce ==
  /\ [](\A url \in ScrapeUrls : scrape_count[url] <= 1)
  /\ [](AllEnded => \A url \in Range(scrape_input) :
                       scrape_count[url] = 1 \/ url \in self_queue_data)
  /\ [][\A w \in Workers :
          (wkpc[w] = "scrape" /\ wkpc'[w] # "scrape") => wkurl[w] \notin self_queue_data]_vars
====
